---- MODULE Spec2Model ----
(***************************************************************************)
(* Verification model of eeaieejento: the Turn Engine (chat_turn), the     *)
(* tool dispatcher (call_tool), the persona memory store and the           *)
(* two-persona conversation controller (run_conversation).                 *)
(*                                                                         *)
(* Text is modelled by TLA+ strings.  The Japanese literals of the source  *)
(* are rendered by ASCII strings of the same role, and timestamps by the   *)
(* fixed text "now".                                                       *)
(***************************************************************************)
EXTENDS Integers, Sequences, FiniteSets, TLC

VARIABLES
    pc,              \* position of the controller inside run_conversation
    phase,           \* "conversation" (for loop, l.166) or "reflection" (l.212)
    ct,              \* position inside chat_turn: "idle", "request", "tools"
    max_turns,       \* parameter of run_conversation
    persona_a,       \* parameter of run_conversation
    persona_b,       \* parameter of run_conversation
    i,               \* loop variable of the conversation loop (l.166)
    r,               \* position in the reflection loop (l.212): 1 = A, 2 = B
    prev_ended,      \* l.164
    last_utterance,  \* l.163
    messages,        \* messages_a / messages_b (l.160-161), by side
    cur,             \* side whose list is bound to msgs in the running chat_turn
    tool_log,        \* chat_turn's tool_log (l.48)
    pending,         \* tool calls of the last assistant message not yet executed
    ret,             \* utterance returned by chat_turn (l.95)
    log,             \* records written to the conversation log file
    fs,              \* file system: files (path -> text) and directories
    calls_left,      \* tool calls the model may still request in this run
    rounds,          \* tool-carrying responses the model may still give this turn
    resumes,         \* resumptions performed so far
    stream           \* parameter stream of chat_turn (l.43)

vars == <<pc, phase, ct, max_turns, persona_a, persona_b, i, r, prev_ended,
          last_utterance, messages, cur, tool_log, pending, ret, log, fs,
          calls_left, rounds, resumes, stream>>

(***************************************************************************)
(* Bounds of the model.                                                    *)
(***************************************************************************)
MaxTurnsBound == 3        \* max_turns ranges over 0..MaxTurnsBound
MaxCallsPerMsg == 2       \* tool calls carried by one assistant message
MaxToolCalls == 2         \* tool calls requested by the model in one run
MaxRounds == 2            \* tool-carrying responses in one chat_turn
MaxResumes == 1           \* resumptions of one conversation log

\* the pairs (persona_a, persona_b) a run is started with
PersonaPairs == {<<"alice", "bob">>}
\* the texts the model answers with; a message that carries tool calls has
\* the empty content
Contents == {"hi", "bye"}
MODEL == "m"

Sides == {"a", "b"}

(***************************************************************************)
(* Sequence helpers.                                                       *)
(***************************************************************************)
\* Python's s[-n:] for n > 0
Tail_n(s, n) == IF Len(s) <= n THEN s ELSE SubSeq(s, Len(s) - n + 1, Len(s))

IsPrefix(s, t) == Len(s) <= Len(t) /\ SubSeq(t, 1, Len(s)) = s

RECURSIVE JoinComma(_)
JoinComma(s) == IF s = <<>> THEN ""
                ELSE IF Len(s) = 1 THEN s[1]
                ELSE s[1] \o ", " \o JoinComma(Tail(s))

(***************************************************************************)
(* File system.  A path is the sequence of its components below the root.  *)
(***************************************************************************)
CWD == <<"cwd">>
PERSONAS_DIR == CWD \o <<"personas">>

resolve_persona(persona) ==
    [memory_dir |-> PERSONAS_DIR \o <<persona, "memory">>,
     workspace_dir |-> PERSONAS_DIR \o <<persona, "workspace">>]

\* files: path -> text; dirs: the directories; links: symbolic link -> target
EmptyFS == [files |-> <<>>, dirs |-> {<<>>, CWD}, links |-> <<>>]

Exists(f, p) == p \in DOMAIN f.files \/ p \in f.dirs
IsFile(f, p) == p \in DOMAIN f.files
IsDir(f, p) == p \in f.dirs

Prefixes(p) == {SubSeq(p, 1, n) : n \in 0..Len(p)}

\* Path.mkdir(parents=True, exist_ok=True); fails when a component is a file
MkdirParentsFails(f, p) == \E q \in Prefixes(p) : IsFile(f, q)
MkdirParents(f, p) == [f EXCEPT !.dirs = @ \cup Prefixes(p)]

\* Path.write_text; fails when the target is a directory or the parent is missing
WriteTextFails(f, p) ==
    \/ p = <<>>
    \/ IsDir(f, p)
    \/ ~IsDir(f, SubSeq(p, 1, Len(p) - 1))
WriteText(f, p, content) ==
    [f EXCEPT !.files = [q \in DOMAIN f.files \cup {p} |->
                            IF q = p THEN content ELSE f.files[q]]]

(***************************************************************************)
(* Persona memory store (tools/memory.py).                                 *)
(***************************************************************************)
MEMORY_CATEGORIES == <<"identity", "user", "knowledge", "journal", "projects">>
WRITABLE_CATEGORIES == <<"user", "knowledge", "journal", "projects">>

InSeq(x, s) == \E n \in 1..Len(s) : s[n] = x

\* first lines of the default documents (memory.py l.81-146)
DEFAULT_IDENTITY == "# Identity\n"
DEFAULT_MEMORY ==
    [user |-> "# User\n", knowledge |-> "# Knowledge\n",
     journal |-> "# Journal\n", projects |-> "# Projects\n"]

DocPath(memory_dir, category) == memory_dir \o <<category \o ".md">>

\* the outcome of a tool handler: the text it returns, or an exception
\* (raised) that leaves call_tool; fs is the file system it leaves behind
Returned(text, f) == [raised |-> FALSE, result |-> text, fs |-> f]
Raised(f) == [raised |-> TRUE, result |-> "", fs |-> f]

\* mutant: a document that does not exist is reported as an error
read_memory_AbsentIsError(category, memory_dir, f) ==
    IF ~InSeq(category, MEMORY_CATEGORIES)
    THEN Returned("Error: unknown category: " \o category, f)
    ELSE IF ~Exists(f, DocPath(memory_dir, category))
    THEN Returned("Error: no document: " \o category, f)
    ELSE IF IsDir(f, DocPath(memory_dir, category))
    THEN Raised(f)
    ELSE Returned(f.files[DocPath(memory_dir, category)], f)

read_memory(category, memory_dir, f) ==
    IF ~InSeq(category, MEMORY_CATEGORIES)
    THEN Returned("Error: unknown category: " \o category, f)
    ELSE IF ~Exists(f, DocPath(memory_dir, category))
    THEN Returned("", f)
    ELSE IF IsDir(f, DocPath(memory_dir, category))
    THEN Raised(f)
    ELSE Returned(f.files[DocPath(memory_dir, category)], f)

\* mutant: append joins without the separating newline
update_memory_NoSeparator(category, content, mode, memory_dir, f) ==
    LET file_path == DocPath(memory_dir, category)
        existing == IF Exists(f, file_path) THEN f.files[file_path] ELSE ""
    IN  IF ~InSeq(category, WRITABLE_CATEGORIES)
        THEN Returned("Error: " \o category \o " is write-protected", f)
        ELSE IF mode \notin {"replace", "append"}
        THEN Returned("Error: unknown mode: " \o mode, f)
        ELSE IF WriteTextFails(f, file_path) \/ IsDir(f, file_path)
        THEN Raised(f)
        ELSE IF mode = "replace"
        THEN Returned("memory updated: " \o category \o " (" \o mode \o ")",
                      WriteText(f, file_path, content))
        ELSE Returned("memory updated: " \o category \o " (" \o mode \o ")",
                      WriteText(f, file_path, existing \o content))

\* mutant: the category and the mode are not checked
update_memory_Unchecked(category, content, mode, memory_dir, f) ==
    LET file_path == DocPath(memory_dir, category)
        existing == IF Exists(f, file_path) THEN f.files[file_path] ELSE ""
    IN  IF WriteTextFails(f, file_path) \/ IsDir(f, file_path)
        THEN Raised(f)
        ELSE IF mode = "replace"
        THEN Returned("memory updated: " \o category \o " (" \o mode \o ")",
                      WriteText(f, file_path, content))
        ELSE Returned("memory updated: " \o category \o " (" \o mode \o ")",
                      WriteText(f, file_path,
                                IF existing # "" THEN existing \o "\n" \o content
                                ELSE content))

update_memory(category, content, mode, memory_dir, f) ==
    LET file_path == DocPath(memory_dir, category)
        existing == IF Exists(f, file_path) THEN f.files[file_path] ELSE ""
    IN  IF ~InSeq(category, WRITABLE_CATEGORIES)
        THEN Returned("Error: " \o category \o " is write-protected", f)
        ELSE IF mode \notin {"replace", "append"}
        THEN Returned("Error: unknown mode: " \o mode, f)
        ELSE IF WriteTextFails(f, file_path) \/ IsDir(f, file_path)
        THEN Raised(f)
        ELSE IF mode = "replace"
        THEN Returned("memory updated: " \o category \o " (" \o mode \o ")",
                      WriteText(f, file_path, content))
        ELSE Returned("memory updated: " \o category \o " (" \o mode \o ")",
                      WriteText(f, file_path,
                                IF existing # "" THEN existing \o "\n" \o content
                                ELSE content))

RECURSIVE InitDefaults(_, _, _)
InitDefaults(memory_dir, f, n) ==
    IF n > Len(MEMORY_CATEGORIES) THEN f
    ELSE LET category == MEMORY_CATEGORIES[n]
             content == IF category = "identity" THEN DEFAULT_IDENTITY
                        ELSE DEFAULT_MEMORY[category]
             file_path == DocPath(memory_dir, category)
         IN  InitDefaults(memory_dir,
                          IF ~Exists(f, file_path)
                          THEN WriteText(f, file_path, content) ELSE f,
                          n + 1)

\* mutant: every document is written, the existing ones too
init_memory_Overwrite(memory_dir, f) ==
    LET g == MkdirParents(f, memory_dir)
        docs == {DocPath(memory_dir, MEMORY_CATEGORIES[n]) :
                    n \in 1..Len(MEMORY_CATEGORIES)}
    IN  [g EXCEPT !.files =
            [q \in DOMAIN g.files \cup docs |->
                IF q = DocPath(memory_dir, "identity") THEN DEFAULT_IDENTITY
                ELSE IF q \in docs
                THEN DEFAULT_MEMORY[CHOOSE c \in DOMAIN DEFAULT_MEMORY :
                                       q = DocPath(memory_dir, c)]
                ELSE g.files[q]]]

init_memory(memory_dir, f) == InitDefaults(memory_dir, MkdirParents(f, memory_dir), 1)

\* the timestamp of the prompt is the constant "now"
build_conversation_prompt(memory_dir, other_name, f) ==
    "time: now\n" \o read_memory("identity", memory_dir, f).result
        \o "\n---\n" \o read_memory("knowledge", memory_dir, f).result
        \o "\n---\ntalking with: " \o other_name

(***************************************************************************)
(* File tools (tools/file_ops.py).                                         *)
(***************************************************************************)
RECURSIVE Split(_, _, _)
\* the components of a path string, split at "/"
Split(s, n, acc) ==
    IF n > Len(s) THEN <<acc>>
    ELSE IF SubSeq(s, n, n) = "/" THEN <<acc>> \o Split(s, n + 1, "")
    ELSE Split(s, n + 1, acc \o SubSeq(s, n, n))

RECURSIVE Normalize(_, _, _)
\* Path.resolve(): ".", "" and ".." are folded away and a symbolic link is
\* replaced by its target
Normalize(base, comps, f) ==
    IF comps = <<>> THEN base
    ELSE IF Head(comps) \in {"", "."} THEN Normalize(base, Tail(comps), f)
    ELSE IF Head(comps) = ".."
    THEN Normalize(IF base = <<>> THEN base ELSE SubSeq(base, 1, Len(base) - 1),
                   Tail(comps), f)
    ELSE LET next == Append(base, Head(comps))
         IN  Normalize(IF next \in DOMAIN f.links THEN f.links[next] ELSE next,
                       Tail(comps), f)

SANDBOX_ERROR == "Error: access outside the directory is forbidden"
None == <<"None">>

\* mutant: the path is joined to base_dir but never resolved
safe_path_Unresolved(path, base_dir, f) ==
    LET joined == IF Len(path) > 0 /\ SubSeq(path, 1, 1) = "/"
                  THEN Split(path, 2, "")
                  ELSE base_dir \o Split(path, 1, "")
    IN  IF IsPrefix(base_dir, joined) THEN Normalize(<<>>, joined, f) ELSE None

\* mutant: paths inside the persona directory, the parent of base_dir, pass
safe_path_Siblings(path, base_dir, f) ==
    LET resolved == IF Len(path) > 0 /\ SubSeq(path, 1, 1) = "/"
                    THEN Normalize(<<>>, Split(path, 1, ""), f)
                    ELSE Normalize(base_dir, Split(path, 1, ""), f)
    IN  IF IsPrefix(SubSeq(base_dir, 1, Len(base_dir) - 1), resolved)
        THEN resolved ELSE None

\* (base_dir / path).resolve(): an absolute path replaces base_dir
safe_path(path, base_dir, f) ==
    LET resolved == IF Len(path) > 0 /\ SubSeq(path, 1, 1) = "/"
                    THEN Normalize(<<>>, Split(path, 1, ""), f)
                    ELSE Normalize(base_dir, Split(path, 1, ""), f)
    IN  IF IsPrefix(base_dir, resolved) THEN resolved ELSE None

write_file(path, content, base_dir, f) ==
    LET resolved == safe_path(path, base_dir, f)
        parent == SubSeq(resolved, 1, Len(resolved) - 1)
    IN  IF resolved = None THEN Returned(SANDBOX_ERROR, f)
        ELSE IF MkdirParentsFails(f, parent)
        THEN Returned("Error: mkdir", f)
        ELSE IF WriteTextFails(MkdirParents(f, parent), resolved)
        THEN Returned("Error: write", MkdirParents(f, parent))
        ELSE Returned("written: " \o path,
                      WriteText(MkdirParents(f, parent), resolved, content))

Parent(p) == SubSeq(p, 1, Len(p) - 1)

\* offset and limit are None: the whole text is returned (l.161-170 not taken)
read_file(path, base_dir, f) ==
    LET resolved == safe_path(path, base_dir, f)
    IN  IF resolved = None THEN Returned(SANDBOX_ERROR, f)
        ELSE IF ~Exists(f, resolved)
        THEN Returned("Error: the file does not exist: " \o path, f)
        ELSE IF ~IsFile(f, resolved)
        THEN Returned("Error: not a file: " \o path, f)
        ELSE Returned(f.files[resolved], f)

append_file(path, content, base_dir, f) ==
    LET resolved == safe_path(path, base_dir, f)
        g == MkdirParents(f, Parent(resolved))
    IN  IF resolved = None THEN Returned(SANDBOX_ERROR, f)
        ELSE IF MkdirParentsFails(f, Parent(resolved))
        THEN Returned("Error: mkdir", f)
        ELSE IF WriteTextFails(g, resolved)
        THEN Returned("Error: open", g)
        ELSE Returned("appended: " \o path,
                      WriteText(g, resolved,
                                (IF IsFile(g, resolved) THEN g.files[resolved]
                                 ELSE "") \o content))

\* Path.unlink
Unlink(f, p) == [f EXCEPT !.files = [q \in DOMAIN f.files \ {p} |-> f.files[q]]]

\* Path.rmdir fails on a directory that is not empty (and on the root)
RmdirFails(f, p) ==
    \/ p = <<>>
    \/ \E q \in DOMAIN f.files \cup f.dirs \cup DOMAIN f.links :
           q # p /\ IsPrefix(p, q)

delete_file(path, base_dir, f) ==
    LET resolved == safe_path(path, base_dir, f)
    IN  IF resolved = None THEN Returned(SANDBOX_ERROR, f)
        ELSE IF ~Exists(f, resolved)
        THEN Returned("Error: the file does not exist: " \o path, f)
        ELSE IF IsFile(f, resolved)
        THEN Returned("deleted: " \o path, Unlink(f, resolved))
        ELSE IF RmdirFails(f, resolved)
        THEN Returned("Error: rmdir", f)
        ELSE Returned("directory deleted: " \o path,
                      [f EXCEPT !.dirs = @ \ {resolved}])

mkdir(path, base_dir, f) ==
    LET resolved == safe_path(path, base_dir, f)
    IN  IF resolved = None THEN Returned(SANDBOX_ERROR, f)
        ELSE IF MkdirParentsFails(f, resolved)
        THEN Returned("Error: mkdir", f)
        ELSE Returned("directory created: " \o path, MkdirParents(f, resolved))

\* the text of a successful grep_file, file_info or list_files is a listing
\* computed from the file system; it is rendered by one fixed text
grep_file(path, pattern, base_dir, f) ==
    LET resolved == safe_path(path, base_dir, f)
    IN  IF resolved = None THEN Returned(SANDBOX_ERROR, f)
        ELSE IF ~Exists(f, resolved)
        THEN Returned("Error: the file does not exist: " \o path, f)
        ELSE IF ~IsFile(f, resolved)
        THEN Returned("Error: not a file: " \o path, f)
        ELSE Returned("(matching lines)", f)

file_info(path, base_dir, f) ==
    LET resolved == safe_path(path, base_dir, f)
    IN  IF resolved = None THEN Returned(SANDBOX_ERROR, f)
        ELSE IF ~Exists(f, resolved)
        THEN Returned("Error: the file does not exist: " \o path, f)
        ELSE Returned("path: " \o path, f)

list_files(path, base_dir, f) ==
    LET resolved == safe_path(path, base_dir, f)
    IN  IF resolved = None THEN Returned(SANDBOX_ERROR, f)
        ELSE IF ~Exists(f, resolved)
        THEN Returned("Error: the directory does not exist: " \o path, f)
        ELSE IF ~IsDir(f, resolved)
        THEN Returned("Error: not a directory: " \o path, f)
        ELSE Returned("(listing)", f)

\* search in content
Contains(content, search) ==
    \E n \in 1..(Len(content) - Len(search) + 1) :
        SubSeq(content, n, n + Len(search) - 1) = search

RECURSIVE CountFrom(_, _, _)
\* str.count: occurrences that do not overlap, from position n on
CountFrom(content, search, n) ==
    IF search = "" THEN Len(content) + 2 - n
    ELSE IF n + Len(search) - 1 > Len(content) THEN 0
    ELSE IF SubSeq(content, n, n + Len(search) - 1) = search
    THEN 1 + CountFrom(content, search, n + Len(search))
    ELSE CountFrom(content, search, n + 1)

\* str.replace(search, replace, 1) for a search that occurs
ReplaceFirst(content, search, replace) ==
    LET n == CHOOSE m \in 1..(Len(content) + 1) :
                 /\ SubSeq(content, m, m + Len(search) - 1) = search
                 /\ \A q \in 1..(m - 1) :
                        SubSeq(content, q, q + Len(search) - 1) # search
    IN  SubSeq(content, 1, n - 1) \o replace
            \o SubSeq(content, n + Len(search), Len(content))

IsSpace(c) == c \in {" ", "\n", "\t"}

RECURSIVE Words(_, _, _)
\* str.split(): the maximal runs of characters that are not white space
Words(text, n, acc) ==
    IF n > Len(text) THEN (IF acc = "" THEN <<>> ELSE <<acc>>)
    ELSE IF IsSpace(SubSeq(text, n, n))
    THEN (IF acc = "" THEN <<>> ELSE <<acc>>) \o Words(text, n + 1, "")
    ELSE Words(text, n + 1, acc \o SubSeq(text, n, n))

RECURSIVE JoinSpace(_)
JoinSpace(ws) == IF ws = <<>> THEN ""
                 ELSE IF Len(ws) = 1 THEN ws[1]
                 ELSE ws[1] \o " " \o JoinSpace(Tail(ws))

\* " ".join(text.split())
Normalized(text) == JoinSpace(Words(text, 1, ""))

edit_file(path, search, replace, base_dir, f) ==
    LET resolved == safe_path(path, base_dir, f)
        content == f.files[resolved]
    IN  IF resolved = None THEN Returned(SANDBOX_ERROR, f)
        ELSE IF ~Exists(f, resolved)
        THEN Returned("Error: the file does not exist: " \o path, f)
        ELSE IF ~IsFile(f, resolved)
        THEN Returned("Error: not a file: " \o path, f)
        ELSE IF ~Contains(content, search)
        THEN IF ~Contains(Normalized(content), Normalized(search))
             THEN Returned("Error: search string not found", f)
             ELSE Returned("Error: search string not found (white space may differ)", f)
        ELSE IF CountFrom(content, search, 1) > 1
        THEN Returned("Error: search string found more than once", f)
        ELSE Returned("edited: " \o path,
                      WriteText(f, resolved, ReplaceFirst(content, search, replace)))

(***************************************************************************)
(* Web tools (tools/web.py): wrappers of network calls that catch every    *)
(* exception; what the network answers is rendered by one fixed text.      *)
(***************************************************************************)
web_search(query) == "(search results)"
web_fetch(url) == "(page text)"
http_request(method, url) == "(http response)"

(***************************************************************************)
(* Weather tool (tools/weather.py).                                        *)
(***************************************************************************)
get_weather(city) ==
    IF city = "Tokyo" THEN "sunny"
    ELSE IF city = "Osaka" THEN "pig"
    ELSE IF city = "New York" THEN "blizzard"
    ELSE "unknown"

(***************************************************************************)
(* Tool registry and dispatcher (tools/__init__.py).                       *)
(***************************************************************************)
\* _TOOL_SCHEMA: built from CONVERSATION_TOOLS = FILE_TOOLS + MEMORY_TOOLS +
\* WEB_TOOLS + [END_CONVERSATION_TOOL]; WEATHER_TOOL is not part of it
SchemaNames ==
    {"read_file", "write_file", "append_file", "edit_file", "delete_file",
     "list_files", "mkdir", "grep_file", "file_info", "read_memory",
     "update_memory", "web_search", "web_fetch", "http_request",
     "end_conversation"}

_TOOL_SCHEMA(name) ==
    CASE name \in {"read_file", "delete_file", "list_files", "mkdir", "file_info"}
           -> <<"path">>
      [] name \in {"write_file", "append_file"} -> <<"path", "content">>
      [] name = "edit_file" -> <<"path", "search", "replace">>
      [] name = "grep_file" -> <<"path", "pattern">>
      [] name = "read_memory" -> <<"category">>
      [] name = "update_memory" -> <<"category", "content", "mode">>
      [] name = "web_search" -> <<"query">>
      [] name = "web_fetch" -> <<"url">>
      [] name = "http_request" -> <<"method", "url">>
      [] OTHER -> <<>>

\* None when nothing is missing, else the error text
_validate_args(name, args) ==
    LET required == _TOOL_SCHEMA(name)
        missing == SelectSeq(required, LAMBDA p : p \notin DOMAIN args)
    IN  IF missing # <<>>
        THEN "Error: " \o name \o "() lacks required parameters: "
                 \o JoinComma(missing) \o ". required: " \o JoinComma(required)
        ELSE "None"

\* the handlers of the dispatch table; a handler that reads an argument the
\* mapping does not hold raises KeyError
Handler(name, args, memory_dir, workspace_dir, f) ==
    CASE name = "get_weather" ->
           IF "city" \in DOMAIN args THEN Returned(get_weather(args.city), f)
           ELSE Raised(f)
      [] name = "read_file" -> read_file(args.path, workspace_dir, f)
      [] name = "write_file" ->
           write_file(args.path, args.content, workspace_dir, f)
      [] name = "append_file" ->
           append_file(args.path, args.content, workspace_dir, f)
      [] name = "edit_file" ->
           edit_file(args.path, args.search, args.replace, workspace_dir, f)
      [] name = "delete_file" -> delete_file(args.path, workspace_dir, f)
      [] name = "list_files" -> list_files(args.path, workspace_dir, f)
      [] name = "mkdir" -> mkdir(args.path, workspace_dir, f)
      [] name = "grep_file" -> grep_file(args.path, args.pattern, workspace_dir, f)
      [] name = "file_info" -> file_info(args.path, workspace_dir, f)
      [] name = "read_memory" -> read_memory(args.category, memory_dir, f)
      [] name = "update_memory" ->
           update_memory(args.category, args.content, args.mode, memory_dir, f)
      [] name = "web_search" -> Returned(web_search(args.query), f)
      [] name = "web_fetch" -> Returned(web_fetch(args.url), f)
      [] name = "http_request" -> Returned(http_request(args.method, args.url), f)

\* the required parameters the tool definitions declare (get_weather:
\* weather.py l.14; the others are the ones _TOOL_SCHEMA is built from)
Required(name) == IF name = "get_weather" THEN <<"city">> ELSE _TOOL_SCHEMA(name)

\* the keys of the dispatch table (l.51-67)
HandlerNames ==
    {"get_weather", "read_file", "write_file", "append_file", "edit_file",
     "delete_file", "list_files", "mkdir", "grep_file", "file_info",
     "read_memory", "update_memory", "web_search", "web_fetch", "http_request"}

\* mutant: a name without handler is looked up in the table all the same
call_tool_UnknownRaises(name, args, memory_dir, workspace_dir, f) ==
    IF _validate_args(name, args) # "None"
    THEN Returned(_validate_args(name, args), f)
    ELSE IF name \in HandlerNames
    THEN Handler(name, args, memory_dir, workspace_dir, f)
    ELSE Raised(f)

call_tool(name, args, memory_dir, workspace_dir, f) ==
    IF _validate_args(name, args) # "None"
    THEN Returned(_validate_args(name, args), f)
    ELSE IF name \in HandlerNames
    THEN Handler(name, args, memory_dir, workspace_dir, f)
    ELSE Returned("unknown tool: " \o name, f)

(***************************************************************************)
(* The model backend: what one chat request may return.                    *)
(***************************************************************************)
NoArgs == <<>>
ToolCallChoices ==
    {[name |-> "end_conversation", arguments |-> NoArgs],
     [name |-> "end_conversation", arguments |-> [reason |-> "R"]],
     [name |-> "update_memory",
      arguments |-> [category |-> "knowledge", content |-> "A", mode |-> "append"]],
     [name |-> "write_file", arguments |-> [path |-> "note.txt", content |-> "A"]],
     [name |-> "get_weather", arguments |-> NoArgs]}

\* the sequences of at most n tool calls
ToolCallSeqs(n) == UNION {[1..k -> ToolCallChoices] : k \in 0..n}

Min(x, y) == IF x <= y THEN x ELSE y

\* the messages the backend may answer the current request with
Responses ==
    {[content |-> c, tool_calls |-> <<>>] : c \in Contents} \cup
    {[content |-> "", tool_calls |-> t] :
        t \in ToolCallSeqs(IF rounds > 0 THEN Min(MaxCallsPerMsg, calls_left)
                           ELSE 0) \ {<<>>}}

ToolCallsOf(m) == IF "tool_calls" \in DOMAIN m THEN m.tool_calls ELSE <<>>

(***************************************************************************)
(* chat_turn (agent.py l.40-95).                                           *)
(***************************************************************************)
PersonaOf(side) == IF side = "a" THEN persona_a ELSE persona_b

\* l.50-51 and the initialisation of tool_log; the loop is entered
EnterChatTurn(side, msgs, content) ==
    /\ messages' = [messages EXCEPT
                      ![side] = Append(msgs, [role |-> "user", content |-> content])]
    /\ cur' = side
    /\ tool_log' = <<>>
    /\ pending' = <<>>
    /\ rounds' = MaxRounds
    /\ ct' = "request"
    /\ pc' = "chat"

\* l.70-75, l.92-95: the backend answers the request; the message is appended
ChatRequest ==
    /\ pc = "chat" /\ ct = "request" /\ ~stream
    /\ \E response \in Responses :
          LET content == response.content
              tool_calls == response.tool_calls
              msg == [role |-> "assistant", content |-> content,
                      tool_calls |-> tool_calls]
          IN  /\ messages' = [messages EXCEPT ![cur] = Append(@, msg)]
              /\ IF ToolCallsOf(msg) # <<>>
                 THEN /\ pending' = ToolCallsOf(msg)
                      /\ ct' = "tools"
                      /\ calls_left' = calls_left - Len(tool_calls)
                      /\ rounds' = rounds - 1
                      /\ UNCHANGED <<pc, ret>>
                 ELSE /\ ret' = msg.content
                      /\ ct' = "idle"
                      /\ pc' = "returned"
                      /\ UNCHANGED <<pending, calls_left, rounds>>
    /\ UNCHANGED <<phase, max_turns, persona_a, persona_b, i, r, prev_ended,
                   last_utterance, cur, tool_log, log, fs, resumes, stream>>

\* mutant: the failure of the request is caught and the turn ends with an
\* empty utterance
ChatFails_Swallowed ==
    /\ pc = "chat" /\ ct = "request"
    /\ pc' = "returned"
    /\ ret' = ""
    /\ ct' = "idle"
    /\ UNCHANGED <<phase, max_turns, persona_a, persona_b, i, r, prev_ended,
                   last_utterance, messages, cur, tool_log, pending, log,
                   fs, calls_left, rounds, resumes, stream>>

\* l.70-71: the request fails (raise_for_status); the error leaves chat_turn
\* and the controller, and the with block closes the log
ChatFails ==
    /\ pc = "chat" /\ ct = "request"
    /\ pc' = "aborted"
    /\ ct' = "idle"
    /\ UNCHANGED <<phase, max_turns, persona_a, persona_b, i, r, prev_ended,
                   last_utterance, messages, cur, tool_log, pending, ret, log,
                   fs, calls_left, rounds, resumes, stream>>

\* mutant: end_conversation is dispatched like every other tool name
ToolOutcome_Dispatch(tool_call) ==
    call_tool(tool_call.name, tool_call.arguments,
              resolve_persona(PersonaOf(cur)).memory_dir,
              resolve_persona(PersonaOf(cur)).workspace_dir, fs)

\* mutant: every tool call runs in the directories of persona A
ToolOutcome_SharedDirs(tool_call) ==
    IF tool_call.name = "end_conversation"
    THEN Returned("asked to end the conversation."
                      \o (IF "reason" \in DOMAIN tool_call.arguments
                          THEN tool_call.arguments.reason ELSE ""), fs)
    ELSE call_tool(tool_call.name, tool_call.arguments,
                   resolve_persona(persona_a).memory_dir,
                   resolve_persona(persona_a).workspace_dir, fs)

\* l.77-85: the result of the next tool call of the assistant message
ToolOutcome(tool_call) ==
    IF tool_call.name = "end_conversation"
    THEN Returned("asked to end the conversation."
                      \o (IF "reason" \in DOMAIN tool_call.arguments
                          THEN tool_call.arguments.reason ELSE ""), fs)
    ELSE call_tool(tool_call.name, tool_call.arguments,
                   resolve_persona(PersonaOf(cur)).memory_dir,
                   resolve_persona(PersonaOf(cur)).workspace_dir, fs)

\* mutant: end_conversation is not entered in the tool log
ExecTool_SkipLog ==
    /\ pc = "chat" /\ ct = "tools" /\ pending # <<>>
    /\ LET tool_call == Head(pending)
           out == ToolOutcome(tool_call)
       IN  /\ ~out.raised
           /\ fs' = out.fs
           /\ tool_log' = IF tool_call.name = "end_conversation" THEN tool_log
                          ELSE Append(tool_log,
                                 [name |-> tool_call.name,
                                  arguments |-> tool_call.arguments,
                                  result |-> out.result])
           /\ messages' = [messages EXCEPT
                             ![cur] = Append(@, [role |-> "tool",
                                                 content |-> out.result])]
    /\ pending' = Tail(pending)
    /\ ct' = IF Tail(pending) = <<>> THEN "request" ELSE "tools"
    /\ UNCHANGED <<pc, phase, max_turns, persona_a, persona_b, i, r, prev_ended,
                   last_utterance, cur, ret, log, calls_left, rounds, resumes, stream>>

\* mutant: only the first tool call of a message is executed
ExecTool_DropRest ==
    /\ pc = "chat" /\ ct = "tools" /\ pending # <<>>
    /\ LET tool_call == Head(pending)
           out == ToolOutcome(tool_call)
       IN  /\ ~out.raised
           /\ fs' = out.fs
           /\ tool_log' = Append(tool_log,
                                 [name |-> tool_call.name,
                                  arguments |-> tool_call.arguments,
                                  result |-> out.result])
           /\ messages' = [messages EXCEPT
                             ![cur] = Append(@, [role |-> "tool",
                                                 content |-> out.result])]
    /\ pending' = <<>>
    /\ ct' = "request"
    /\ UNCHANGED <<pc, phase, max_turns, persona_a, persona_b, i, r, prev_ended,
                   last_utterance, cur, ret, log, calls_left, rounds, resumes, stream>>

\* l.76-91: one iteration of the for loop over msg["tool_calls"]
ExecTool ==
    /\ pc = "chat" /\ ct = "tools" /\ pending # <<>>
    /\ LET tool_call == Head(pending)
           out == ToolOutcome(tool_call)
       IN  /\ ~out.raised
           /\ fs' = out.fs
           /\ tool_log' = Append(tool_log,
                                 [name |-> tool_call.name,
                                  arguments |-> tool_call.arguments,
                                  result |-> out.result])
           /\ messages' = [messages EXCEPT
                             ![cur] = Append(@, [role |-> "tool",
                                                 content |-> out.result])]
    /\ pending' = Tail(pending)
    /\ ct' = IF Tail(pending) = <<>> THEN "request" ELSE "tools"
    /\ UNCHANGED <<pc, phase, max_turns, persona_a, persona_b, i, r, prev_ended,
                   last_utterance, cur, ret, log, calls_left, rounds, resumes, stream>>

\* l.84-85: the handler raises; the exception leaves call_tool, chat_turn and
\* the controller
ToolRaises ==
    /\ pc = "chat" /\ ct = "tools" /\ pending # <<>>
    /\ ToolOutcome(Head(pending)).raised
    /\ fs' = ToolOutcome(Head(pending)).fs
    /\ pc' = "aborted"
    /\ ct' = "idle"
    /\ UNCHANGED <<phase, max_turns, persona_a, persona_b, i, r, prev_ended,
                   last_utterance, messages, cur, tool_log, pending, ret, log,
                   calls_left, rounds, resumes, stream>>

(***************************************************************************)
(* run_conversation (agent.py l.132-233).                                  *)
(***************************************************************************)
\* mutant: every write truncates the file
write_log_Truncate(lg, record) == <<record>>

\* l.149-152: one record is appended and flushed (the time field is left out)
write_log(lg, record) == Append(lg, record)

NonSystem(msgs) == SelectSeq(msgs, LAMBDA m : m.role # "system")

\* mutant: the window keeps every message that is no system message
Rebuild_KeepAll(msgs, sys_prompt) ==
    <<[role |-> "system", content |-> sys_prompt]>> \o NonSystem(msgs)

\* l.174-178 and l.216-220: system prompt, then the trailing 9 other messages
Rebuild(msgs, sys_prompt) ==
    <<[role |-> "system", content |-> sys_prompt]>> \o Tail_n(NonSystem(msgs), 9)

OPENING(other) == "(the conversation with " \o other \o " has begun. speak first.)"
REFLECT == "(the conversation is over. look back and record what to remember.)"

Init ==
    /\ pc = "init"
    /\ phase = "conversation"
    /\ ct = "idle"
    /\ max_turns \in 0..MaxTurnsBound
    /\ \E pair \in PersonaPairs : persona_a = pair[1] /\ persona_b = pair[2]
    /\ i = 0
    /\ r = 1
    /\ prev_ended = FALSE
    /\ last_utterance = ""
    /\ messages = [s \in Sides |-> <<>>]
    /\ cur = "a"
    /\ tool_log = <<>>
    /\ pending = <<>>
    /\ ret = ""
    /\ log = <<>>
    /\ fs = EmptyFS
    /\ calls_left = MaxToolCalls
    /\ rounds = MaxRounds
    /\ resumes = 0
    /\ stream = FALSE

\* l.137-164: directories, default memory, the log is opened and started
Begin ==
    /\ pc = "init"
    /\ LET pa == resolve_persona(persona_a)
           pb == resolve_persona(persona_b)
       IN  fs' = init_memory(pb.memory_dir,
                     init_memory(pa.memory_dir,
                         MkdirParents(MkdirParents(fs, pa.workspace_dir),
                                      pb.workspace_dir)))
    /\ log' = write_log(<<>>, [event |-> "start", persona_a |-> persona_a,
                               persona_b |-> persona_b, model |-> MODEL])
    /\ messages' = [s \in Sides |-> <<>>]
    /\ last_utterance' = ""
    /\ prev_ended' = FALSE
    /\ i' = 0
    /\ pc' = "loop"
    /\ UNCHANGED <<phase, ct, max_turns, persona_a, persona_b, r, cur, tool_log,
                   pending, ret, calls_left, rounds, resumes, stream>>

\* mutant: the loop runs one turn too many
StartTurn_OffByOne ==
    /\ pc = "loop" /\ i <= max_turns
    /\ LET is_a_turn == (i % 2 = 0)
           side == IF is_a_turn THEN "a" ELSE "b"
           other == IF is_a_turn THEN persona_b ELSE persona_a
           mem == resolve_persona(PersonaOf(side)).memory_dir
           sys_prompt == build_conversation_prompt(mem, other, fs)
           user_content == IF i = 0 THEN OPENING(other) ELSE last_utterance
       IN  EnterChatTurn(side, Rebuild(messages[side], sys_prompt), user_content)
    /\ phase' = "conversation"
    /\ UNCHANGED <<max_turns, persona_a, persona_b, i, r, prev_ended,
                   last_utterance, ret, log, fs, calls_left, resumes, stream>>

\* l.166-191: the head of the for loop and the body up to the call of chat_turn
StartTurn ==
    /\ pc = "loop" /\ i < max_turns
    /\ LET is_a_turn == (i % 2 = 0)
           side == IF is_a_turn THEN "a" ELSE "b"
           other == IF is_a_turn THEN persona_b ELSE persona_a
           mem == resolve_persona(PersonaOf(side)).memory_dir
           sys_prompt == build_conversation_prompt(mem, other, fs)
           user_content == IF i = 0 THEN OPENING(other) ELSE last_utterance
       IN  EnterChatTurn(side, Rebuild(messages[side], sys_prompt), user_content)
    /\ phase' = "conversation"
    /\ UNCHANGED <<max_turns, persona_a, persona_b, i, r, prev_ended,
                   last_utterance, ret, log, fs, calls_left, resumes, stream>>

\* mutant: the turn record loses the tool calls
LogTurn_NoToolCalls ==
    /\ pc = "returned" /\ phase = "conversation"
    /\ last_utterance' = ret
    /\ log' = write_log(log, [event |-> "turn", turn |-> i,
                              persona |-> PersonaOf(cur), content |-> ret,
                              tool_calls |-> <<>>])
    /\ pc' = "consensus"
    /\ UNCHANGED <<phase, ct, max_turns, persona_a, persona_b, i, r, prev_ended,
                   messages, cur, tool_log, pending, ret, fs, calls_left,
                   rounds, resumes, stream>>

\* mutant: the utterance handed to the next turn is not renewed
LogTurn_StaleUtterance ==
    /\ pc = "returned" /\ phase = "conversation"
    /\ last_utterance' = last_utterance
    /\ log' = write_log(log, [event |-> "turn", turn |-> i,
                              persona |-> PersonaOf(cur), content |-> ret,
                              tool_calls |-> tool_log])
    /\ pc' = "consensus"
    /\ UNCHANGED <<phase, ct, max_turns, persona_a, persona_b, i, r, prev_ended,
                   messages, cur, tool_log, pending, ret, fs, calls_left,
                   rounds, resumes, stream>>

\* mutant: the turn record is not written when the turn returns
LogTurn_NotWritten ==
    /\ pc = "returned" /\ phase = "conversation"
    /\ last_utterance' = ret
    /\ pc' = "consensus"
    /\ UNCHANGED <<phase, ct, max_turns, persona_a, persona_b, i, r, prev_ended,
                   messages, cur, tool_log, pending, ret, log, fs, calls_left,
                   rounds, resumes, stream>>

\* l.186, l.193-194: chat_turn has returned; the turn record is written
LogTurn ==
    /\ pc = "returned" /\ phase = "conversation"
    /\ last_utterance' = ret
    /\ log' = write_log(log, [event |-> "turn", turn |-> i,
                              persona |-> PersonaOf(cur), content |-> ret,
                              tool_calls |-> tool_log])
    /\ pc' = "consensus"
    /\ UNCHANGED <<phase, ct, max_turns, persona_a, persona_b, i, r, prev_ended,
                   messages, cur, tool_log, pending, ret, fs, calls_left,
                   rounds, resumes, stream>>

used_names(tool_calls) == {tool_calls[k].name : k \in 1..Len(tool_calls)}

\* mutant: one end request closes the conversation
Consensus_CloseOnFirst ==
    /\ pc = "consensus"
    /\ IF "end_conversation" \in used_names(tool_log)
       THEN IF TRUE
            THEN /\ log' = write_log(log, [event |-> "end", reason |-> "both_ended"])
                 /\ pc' = "reflection"
                 /\ r' = 1
                 /\ UNCHANGED <<prev_ended, i>>
            ELSE /\ prev_ended' = TRUE
                 /\ i' = i + 1
                 /\ pc' = "loop"
                 /\ UNCHANGED <<log, r>>
       ELSE /\ prev_ended' = FALSE
            /\ i' = i + 1
            /\ pc' = "loop"
            /\ UNCHANGED <<log, r>>
    /\ UNCHANGED <<phase, ct, max_turns, persona_a, persona_b, last_utterance,
                   messages, cur, tool_log, pending, ret, fs, calls_left,
                   rounds, resumes, stream>>

\* mutant: a turn without end request keeps prev_ended
Consensus_NoReset ==
    /\ pc = "consensus"
    /\ IF "end_conversation" \in used_names(tool_log)
       THEN IF prev_ended
            THEN /\ log' = write_log(log, [event |-> "end", reason |-> "both_ended"])
                 /\ pc' = "reflection"
                 /\ r' = 1
                 /\ UNCHANGED <<prev_ended, i>>
            ELSE /\ prev_ended' = TRUE
                 /\ i' = i + 1
                 /\ pc' = "loop"
                 /\ UNCHANGED <<log, r>>
       ELSE /\ prev_ended' = prev_ended
            /\ i' = i + 1
            /\ pc' = "loop"
            /\ UNCHANGED <<log, r>>
    /\ UNCHANGED <<phase, ct, max_turns, persona_a, persona_b, last_utterance,
                   messages, cur, tool_log, pending, ret, fs, calls_left,
                   rounds, resumes, stream>>

\* mutant: the loop goes on after the both_ended record
Consensus_NoBreak ==
    /\ pc = "consensus"
    /\ IF "end_conversation" \in used_names(tool_log)
       THEN IF prev_ended
            THEN /\ log' = write_log(log, [event |-> "end", reason |-> "both_ended"])
                 /\ pc' = "loop"
                 /\ i' = i + 1
                 /\ UNCHANGED <<prev_ended, r>>
            ELSE /\ prev_ended' = TRUE
                 /\ i' = i + 1
                 /\ pc' = "loop"
                 /\ UNCHANGED <<log, r>>
       ELSE /\ prev_ended' = FALSE
            /\ i' = i + 1
            /\ pc' = "loop"
            /\ UNCHANGED <<log, r>>
    /\ UNCHANGED <<phase, ct, max_turns, persona_a, persona_b, last_utterance,
                   messages, cur, tool_log, pending, ret, fs, calls_left,
                   rounds, resumes, stream>>

\* mutant: after the break the code of the else branch runs all the same
Consensus_ElseAfterBreak ==
    /\ pc = "consensus"
    /\ IF "end_conversation" \in used_names(tool_log)
       THEN IF prev_ended
            THEN /\ log' = write_log(log, [event |-> "end", reason |-> "both_ended"])
                 /\ pc' = "loop"
                 /\ i' = max_turns
                 /\ UNCHANGED <<prev_ended, r>>
            ELSE /\ prev_ended' = TRUE
                 /\ i' = i + 1
                 /\ pc' = "loop"
                 /\ UNCHANGED <<log, r>>
       ELSE /\ prev_ended' = FALSE
            /\ i' = i + 1
            /\ pc' = "loop"
            /\ UNCHANGED <<log, r>>
    /\ UNCHANGED <<phase, ct, max_turns, persona_a, persona_b, last_utterance,
                   messages, cur, tool_log, pending, ret, fs, calls_left,
                   rounds, resumes, stream>>

\* mutant: every end_conversation call counts as an end request of its own,
\* so that a turn with two of them closes the conversation alone
Consensus_CountCalls ==
    /\ pc = "consensus"
    /\ LET ends == Len(SelectSeq(tool_log,
                       LAMBDA tc : tc.name = "end_conversation"))
       IN  IF ends >= 1
           THEN IF prev_ended \/ ends >= 2
                THEN /\ log' = write_log(log, [event |-> "end", reason |-> "both_ended"])
                     /\ pc' = "reflection"
                     /\ r' = 1
                     /\ UNCHANGED <<prev_ended, i>>
                ELSE /\ prev_ended' = TRUE
                     /\ i' = i + 1
                     /\ pc' = "loop"
                     /\ UNCHANGED <<log, r>>
           ELSE /\ prev_ended' = FALSE
                /\ i' = i + 1
                /\ pc' = "loop"
                /\ UNCHANGED <<log, r>>
    /\ UNCHANGED <<phase, ct, max_turns, persona_a, persona_b, last_utterance,
                   messages, cur, tool_log, pending, ret, fs, calls_left,
                   rounds, resumes, stream>>

\* l.196-204: the end consensus
Consensus ==
    /\ pc = "consensus"
    /\ IF "end_conversation" \in used_names(tool_log)
       THEN IF prev_ended
            THEN /\ log' = write_log(log, [event |-> "end", reason |-> "both_ended"])
                 /\ pc' = "reflection"
                 /\ r' = 1
                 /\ UNCHANGED <<prev_ended, i>>
            ELSE /\ prev_ended' = TRUE
                 /\ i' = i + 1
                 /\ pc' = "loop"
                 /\ UNCHANGED <<log, r>>
       ELSE /\ prev_ended' = FALSE
            /\ i' = i + 1
            /\ pc' = "loop"
            /\ UNCHANGED <<log, r>>
    /\ UNCHANGED <<phase, ct, max_turns, persona_a, persona_b, last_utterance,
                   messages, cur, tool_log, pending, ret, fs, calls_left,
                   rounds, resumes, stream>>

\* l.205-207: the loop ran out (the else branch of the for loop)
LoopExhausted ==
    /\ pc = "loop" /\ i >= max_turns
    /\ log' = write_log(log, [event |-> "end", reason |-> "max_turns",
                              max_turns |-> max_turns])
    /\ pc' = "reflection"
    /\ r' = 1
    /\ UNCHANGED <<phase, ct, max_turns, persona_a, persona_b, i, prev_ended,
                   last_utterance, messages, cur, tool_log, pending, ret, fs,
                   calls_left, rounds, resumes, stream>>

\* l.212-229: one iteration of the reflection loop up to the call of chat_turn
StartReflection ==
    /\ pc = "reflection" /\ r <= 2
    /\ LET side == IF r = 1 THEN "a" ELSE "b"
           mem == resolve_persona(PersonaOf(side)).memory_dir
           sys_prompt == build_conversation_prompt(mem, "", fs)
       IN  EnterChatTurn(side, Rebuild(messages[side], sys_prompt), REFLECT)
    /\ phase' = "reflection"
    /\ UNCHANGED <<max_turns, persona_a, persona_b, i, r, prev_ended,
                   last_utterance, ret, log, fs, calls_left, resumes, stream>>

\* mutant: the reflection loop ends after its first iteration
LogReflection_SkipB ==
    /\ pc = "returned" /\ phase = "reflection"
    /\ log' = write_log(log, [event |-> "reflection", persona |-> PersonaOf(cur),
                              content |-> ret, tool_calls |-> tool_log])
    /\ r' = r + 2
    /\ pc' = "reflection"
    /\ UNCHANGED <<phase, ct, max_turns, persona_a, persona_b, i, prev_ended,
                   last_utterance, messages, cur, tool_log, pending, ret, fs,
                   calls_left, rounds, resumes, stream>>

\* l.222, l.230-231: the reflection turn has returned; its record is written
LogReflection ==
    /\ pc = "returned" /\ phase = "reflection"
    /\ log' = write_log(log, [event |-> "reflection", persona |-> PersonaOf(cur),
                              content |-> ret, tool_calls |-> tool_log])
    /\ r' = r + 1
    /\ pc' = "reflection"
    /\ UNCHANGED <<phase, ct, max_turns, persona_a, persona_b, i, prev_ended,
                   last_utterance, messages, cur, tool_log, pending, ret, fs,
                   calls_left, rounds, resumes, stream>>

\* l.212, l.233: the reflection loop is over, the log is closed
Finish ==
    /\ pc = "reflection" /\ r > 2
    /\ pc' = "done"
    /\ UNCHANGED <<phase, ct, max_turns, persona_a, persona_b, i, r, prev_ended,
                   last_utterance, messages, cur, tool_log, pending, ret, log,
                   fs, calls_left, rounds, resumes, stream>>

Next ==
    \/ Begin
    \/ StartTurn
    \/ ChatRequest
    \/ ChatFails
    \/ ExecTool
    \/ ToolRaises
    \/ LogTurn
    \/ Consensus
    \/ LoopExhausted
    \/ StartReflection
    \/ LogReflection
    \/ Finish

Spec == Init /\ [][Next]_vars

(***************************************************************************)
(* Views of the state used by the properties.                              *)
(***************************************************************************)
EventRecs(lg, event) == SelectSeq(lg, LAMBDA rec : rec.event = event)
TurnRecs == EventRecs(log, "turn")
EndRecs == EventRecs(log, "end")
ReflectionRecs == EventRecs(log, "reflection")

\* the turn record's tool calls include end_conversation
Ended(rec) == "end_conversation" \in used_names(rec.tool_calls)

HasEnd(lg, reason) ==
    \E k \in 1..Len(lg) : lg[k].event = "end" /\ lg[k].reason = reason

BOTH_ENDED == [event |-> "end", reason |-> "both_ended"]

\* turns k-1 and k (positions in TurnRecs) both asked to end
BothEndedAt(T, k) == k >= 2 /\ k <= Len(T) /\ Ended(T[k - 1]) /\ Ended(T[k])

\* the messages of the running (or last) chat_turn: those after its user message
LastUser(msgs) ==
    CHOOSE p \in 0..Len(msgs) :
        /\ p > 0 => msgs[p].role = "user"
        /\ \A q \in (p + 1)..Len(msgs) : msgs[q].role # "user"
TurnPart(msgs) == SubSeq(msgs, LastUser(msgs) + 1, Len(msgs))

RECURSIVE CallsIn(_)
\* the tool calls carried by the assistant messages of a history, in order
CallsIn(msgs) ==
    IF msgs = <<>> THEN <<>>
    ELSE ToolCallsOf(Head(msgs)) \o CallsIn(Tail(msgs))

ToolMsgs(msgs) == SelectSeq(msgs, LAMBDA m : m.role = "tool")

(***************************************************************************)
(* C1: a conversation turn closes the conversation with reason both_ended  *)
(* exactly when its tool calls and those of the turn right before it both  *)
(* include end_conversation; after any other turn no end record has been   *)
(* written.                                                                *)
(***************************************************************************)
C1_BothEndedIff ==
    [][pc = "consensus" =>
          /\ BothEndedAt(TurnRecs, Len(TurnRecs)) <=>
                 (log' = Append(log, BOTH_ENDED) /\ pc' = "reflection")
          /\ ~BothEndedAt(TurnRecs, Len(TurnRecs)) =>
                 (log' = log /\ EndRecs' = <<>> /\ pc' = "loop")]_vars

C1_Witness ==
    /\ pc = "reflection"
    /\ Len(TurnRecs) >= 2
    /\ log[Len(log)] = BOTH_ENDED

(***************************************************************************)
(* C2: a turn without end_conversation leaves prev_ended false, and two    *)
(* end requests separated by a turn without one do not close the           *)
(* conversation: no both_ended record is written after the third turn.     *)
(***************************************************************************)
C2_ResetByNonEndingTurn ==
    LET T == TurnRecs
        n == Len(T)
    IN  /\ (pc = "loop" /\ n >= 1 /\ ~Ended(T[n])) => ~prev_ended
        /\ (n >= 3 /\ Ended(T[n - 2]) /\ ~Ended(T[n - 1]) /\ Ended(T[n]))
               => ~HasEnd(log, "both_ended")

C2_Witness ==
    /\ pc = "loop"
    /\ Len(TurnRecs) = 3
    /\ Ended(TurnRecs[1]) /\ ~Ended(TurnRecs[2]) /\ Ended(TurnRecs[3])
    /\ TurnRecs[1].persona = persona_a
    /\ EndRecs = <<>>

(***************************************************************************)
(* C3: when two consecutive turns N and N+1 both call end_conversation the *)
(* both_ended record directly follows the record of turn N+1, no turn N+2  *)
(* is started, and a run that completes has exactly one reflection record  *)
(* of persona_a followed by one of persona_b.                              *)
(***************************************************************************)
C3_CloseAfterSecondEnd ==
    LET T == TurnRecs
    IN  \A k \in 2..Len(T) :
            BothEndedAt(T, k) =>
                \/ pc = "consensus" /\ k = Len(T) /\ EndRecs = <<>>
                \/ /\ k = Len(T)
                   /\ log[k + 2] = BOTH_ENDED
                   /\ T[k].turn = i
                   /\ pc \in {"reflection", "chat", "returned", "done", "aborted"}
                   /\ pc \in {"chat", "returned"} => phase = "reflection"
                   /\ pc = "done" =>
                          /\ Len(ReflectionRecs) = 2
                          /\ ReflectionRecs[1].persona = persona_a
                          /\ ReflectionRecs[2].persona = persona_b

C3_Witness ==
    /\ pc = "done"
    /\ HasEnd(log, "both_ended")
    /\ TurnRecs[Len(TurnRecs) - 1].persona = persona_a
    /\ Len(ReflectionRecs) = 2

(***************************************************************************)
(* C4: when max_turns turns have run without both_ended the run stops with *)
(* reason max_turns: the turn records are exactly those of the indices     *)
(* 0..max_turns-1, no further turn is started, and the end record carries  *)
(* reason max_turns (with max_turns = 0: no turn at all).                  *)
(***************************************************************************)
AfterLoop == pc \in {"reflection", "done"} \/ phase = "reflection"

C4_MaxTurns ==
    LET T == TurnRecs
    IN  /\ Len(T) <= max_turns
        /\ (pc \in {"chat", "returned"} /\ phase = "conversation") => i < max_turns
        /\ HasEnd(log, "max_turns") =>
               /\ Len(T) = max_turns
               /\ \A k \in 1..Len(T) : T[k].turn = k - 1
               /\ EndRecs = <<[event |-> "end", reason |-> "max_turns",
                               max_turns |-> max_turns]>>
               /\ AfterLoop
        /\ (pc = "loop" /\ Len(T) = max_turns) => ENABLED LoopExhausted /\ ~ENABLED StartTurn
        /\ (AfterLoop /\ ~HasEnd(log, "both_ended")) => HasEnd(log, "max_turns")

C4_Witness ==
    /\ pc = "done"
    /\ max_turns >= 2
    /\ HasEnd(log, "max_turns")
    /\ Len(TurnRecs) = max_turns

(***************************************************************************)
(* C5: once the end record is written (either reason) the turn records and *)
(* the end record never change again, also when a reflection turn calls    *)
(* end_conversation; the reflection records are one of persona_a and then  *)
(* one of persona_b, both present when the run completes.                  *)
(***************************************************************************)
Personas(recs) == [k \in 1..Len(recs) |-> recs[k].persona]

C5_ReflectionTwice ==
    [][EndRecs # <<>> =>
          /\ EndRecs' = EndRecs
          /\ TurnRecs' = TurnRecs
          /\ Len(EndRecs) = 1
          /\ IsPrefix(Personas(ReflectionRecs'), <<persona_a, persona_b>>)
          /\ IsPrefix(ReflectionRecs, ReflectionRecs')
          /\ pc' = "done" => Personas(ReflectionRecs') = <<persona_a, persona_b>>
          /\ pc' \in {"reflection", "chat", "returned", "done", "aborted"}
          /\ pc' \in {"chat", "returned"} => phase' = "reflection"]_vars

C5_Witness ==
    /\ pc = "done"
    /\ Len(ReflectionRecs) = 2
    /\ \E k \in 1..2 : Ended(ReflectionRecs[k])

(***************************************************************************)
(* C6 (as claimed): while a reflection turn runs no file of a workspace    *)
(* is created or changed, whatever tool names the model returns.           *)
(***************************************************************************)
WorkspaceFiles(f) ==
    {p \in DOMAIN f.files :
        \E name \in {persona_a, persona_b} :
            IsPrefix(resolve_persona(name).workspace_dir, p)}

C6_ReflectionMemoryOnly ==
    [][phase = "reflection" =>
          /\ WorkspaceFiles(fs') = WorkspaceFiles(fs)
          /\ \A p \in WorkspaceFiles(fs) : fs'.files[p] = fs.files[p]]_vars

(***************************************************************************)
(* C7: the log only grows by appending, and at every moment (also after an *)
(* aborted run) it is a prefix of: the start record, turn records numbered *)
(* 0, 1, 2, ... by persona_a on even and persona_b on odd numbers, one end *)
(* record, a reflection record of persona_a, one of persona_b.             *)
(***************************************************************************)
LogShape(lg) ==
    LET n == Len(EventRecs(lg, "turn"))
    IN  /\ Len(lg) <= n + 4
        /\ \A k \in 1..Len(lg) :
              CASE k = 1 -> lg[k] = [event |-> "start", persona_a |-> persona_a,
                                     persona_b |-> persona_b, model |-> MODEL]
                [] k \in 2..(n + 1) ->
                       /\ lg[k].event = "turn"
                       /\ lg[k].turn = k - 2
                       /\ lg[k].persona = IF (k - 2) % 2 = 0 THEN persona_a
                                          ELSE persona_b
                [] k = n + 2 -> lg[k].event = "end"
                [] k = n + 3 -> lg[k].event = "reflection" /\ lg[k].persona = persona_a
                [] k = n + 4 -> lg[k].event = "reflection" /\ lg[k].persona = persona_b

C7_LogAppendOnly ==
    /\ [](LogShape(log))
    /\ [][IsPrefix(log, log') /\ Len(log') <= Len(log) + 1]_vars

C7_Witness ==
    /\ pc = "aborted"
    /\ Len(TurnRecs) >= 2
    /\ Len(ReflectionRecs) = 1

(***************************************************************************)
(* C9: when chat_turn returns, the last message of the history is an       *)
(* assistant message without tool calls, the returned utterance is its     *)
(* content, and the returned tool log has one entry per tool call of the   *)
(* turn's assistant messages, in order, with the call's name and arguments *)
(* and the content of the tool message that answered it.                   *)
(***************************************************************************)
C9_ChatTurnReturn ==
    pc = "returned" =>
        LET msgs == messages[cur]
            last == msgs[Len(msgs)]
            calls == CallsIn(TurnPart(msgs))
            answers == ToolMsgs(TurnPart(msgs))
        IN  /\ last.role = "assistant"
            /\ ToolCallsOf(last) = <<>>
            /\ ret = last.content
            /\ Len(tool_log) = Len(calls)
            /\ Len(answers) = Len(calls)
            /\ \A k \in 1..Len(calls) :
                   tool_log[k] = [name |-> calls[k].name,
                                  arguments |-> calls[k].arguments,
                                  result |-> answers[k].content]

C9_Witness ==
    /\ pc = "returned"
    /\ Len(tool_log) >= 2
    /\ tool_log[1].name # tool_log[2].name
    /\ Len(SelectSeq(TurnPart(messages[cur]), LAMBDA m : m.role = "assistant")) = 3

(***************************************************************************)
(* C10: inside chat_turn every assistant message with k tool calls is      *)
(* directly followed by the tool messages of its calls, in order: k of     *)
(* them before the next model request, and while its calls are executed    *)
(* one message per executed call, the calls still to run being the rest of *)
(* the k in order; one execution step appends exactly one tool message.    *)
(***************************************************************************)
\* position of the last assistant message of msgs (0 when there is none)
LastAssistant(msgs) ==
    CHOOSE p \in 0..Len(msgs) :
        /\ p > 0 => msgs[p].role = "assistant"
        /\ \A q \in (p + 1)..Len(msgs) : msgs[q].role # "assistant"

ToolGroups(msgs) ==
    LET P == TurnPart(msgs)
        la == LastAssistant(P)
    IN  /\ \A p \in 1..Len(P) :
              P[p].role = "assistant" =>
                  LET k == Len(ToolCallsOf(P[p]))
                      done == IF p = la THEN k - Len(pending) ELSE k
                  IN  /\ done >= 0
                      /\ Len(P) >= p + done
                      /\ \A q \in (p + 1)..(p + done) : P[q].role = "tool"
                      /\ p < la => P[p + k + 1].role = "assistant"
                      /\ p = la => /\ Len(P) = p + done
                                   /\ pending = SubSeq(ToolCallsOf(P[p]), done + 1, k)
        /\ la = 0 => pending = <<>> /\ P = <<>>
        /\ \A j \in 1..Len(ToolMsgs(P)) :
              /\ j <= Len(tool_log)
              /\ ToolMsgs(P)[j].content = tool_log[j].result
              /\ tool_log[j].name = CallsIn(P)[j].name
        /\ Len(tool_log) = Len(ToolMsgs(P))

C10_ToolMessagesInOrder ==
    /\ [](pc \in {"chat", "returned"} =>
             /\ ToolGroups(messages[cur])
             /\ ct = "request" => pending = <<>>)
    /\ [][(pc = "chat" /\ ct = "tools" /\ pc' = "chat") =>
             /\ Len(messages'[cur]) = Len(messages[cur]) + 1
             /\ messages'[cur][Len(messages'[cur])].role = "tool"
             /\ pending' = Tail(pending)
             /\ Len(tool_log') = Len(tool_log) + 1
             /\ tool_log'[Len(tool_log')].name = Head(pending).name]_vars

C10_Witness ==
    /\ pc = "chat" /\ ct = "request"
    /\ Len(messages[cur]) >= 3
    /\ messages[cur][Len(messages[cur])].role = "tool"
    /\ messages[cur][Len(messages[cur]) - 1].role = "tool"
    /\ messages[cur][Len(messages[cur]) - 2].role = "assistant"
    /\ tool_log[1].name # tool_log[2].name

(***************************************************************************)
(* Resuming a conversation from its log (cli.py l.69-80 calls              *)
(* load_conversation_log and run_conversation(resume_from=...)).           *)
(***************************************************************************)
\* the bookkeeping state read back from the records of a log
load_conversation_log(lg) ==
    LET T == EventRecs(lg, "turn")
    IN  [persona_a |-> lg[1].persona_a,
         persona_b |-> lg[1].persona_b,
         next_turn |-> IF T = <<>> THEN 0 ELSE T[Len(T)].turn + 1,
         prev_ended |-> IF T = <<>> THEN FALSE ELSE Ended(T[Len(T)]),
         last_utterance |-> IF T = <<>> THEN "" ELSE T[Len(T)].content]

\* run_conversation(resume_from=log_file) on the log of an aborted run whose
\* conversation is still open: the controller state is rebuilt from the log,
\* the histories start empty, records are appended to the same log
Resume ==
    /\ pc = "aborted" /\ resumes < MaxResumes
    /\ log # <<>> /\ EndRecs = <<>>
    /\ LET state == load_conversation_log(log)
           pa == resolve_persona(state.persona_a)
           pb == resolve_persona(state.persona_b)
       IN  /\ persona_a' = state.persona_a
           /\ persona_b' = state.persona_b
           /\ i' = state.next_turn
           /\ prev_ended' = state.prev_ended
           /\ last_utterance' = state.last_utterance
           /\ fs' = init_memory(pb.memory_dir,
                        init_memory(pa.memory_dir,
                            MkdirParents(MkdirParents(fs, pa.workspace_dir),
                                         pb.workspace_dir)))
    /\ messages' = [s \in Sides |-> <<>>]
    /\ tool_log' = <<>>
    /\ pending' = <<>>
    /\ ret' = ""
    /\ phase' = "conversation"
    /\ ct' = "idle"
    /\ pc' = "loop"
    /\ resumes' = resumes + 1
    /\ UNCHANGED <<max_turns, r, cur, log, calls_left, rounds, stream>>

NextResume == Next \/ Resume

SpecResume == Init /\ [][NextResume]_vars

MaxStreamTurns == 1       \* max_turns of the streamed runs: 0..MaxStreamTurns
MaxStreamLen == 2         \* length of the content assembled from one stream

\* the content fragments and the chunks a stream may deliver
Fragments == {"", "h", "i"}
Chunks ==
    {[message |-> [content |-> c, tool_calls |-> t]] :
        c \in Fragments, t \in ToolCallSeqs(1)}

\* l.55-58: the request is sent and the stream opened
StreamOpen ==
    /\ pc = "chat" /\ ct = "request" /\ stream
    /\ ret' = ""
    /\ pending' = <<>>
    /\ ct' = "stream"
    /\ UNCHANGED <<pc, phase, max_turns, persona_a, persona_b, i, r, prev_ended,
                   last_utterance, messages, cur, tool_log, log, fs, calls_left,
                   rounds, resumes, stream>>

\* mutant: the tool calls of a chunk are executed as soon as the chunk arrives
StreamChunk_Eager ==
    /\ pc = "chat" /\ ct = "stream"
    /\ \E chunk \in Chunks :
          LET msg == chunk.message
          IN  /\ Len(ret \o msg.content) <= MaxStreamLen
              /\ Len(pending \o msg.tool_calls)
                     <= (IF rounds > 0 THEN Min(MaxCallsPerMsg, calls_left) ELSE 0)
              /\ ret' = IF msg.content # "" THEN ret \o msg.content ELSE ret
              /\ pending' = IF msg.tool_calls # <<>>
                            THEN pending \o msg.tool_calls ELSE pending
              /\ IF msg.tool_calls # <<>>
                 THEN LET out == ToolOutcome(msg.tool_calls[1])
                      IN  /\ ~out.raised
                          /\ fs' = out.fs
                          /\ tool_log' = Append(tool_log,
                                 [name |-> msg.tool_calls[1].name,
                                  arguments |-> msg.tool_calls[1].arguments,
                                  result |-> out.result])
                 ELSE UNCHANGED <<fs, tool_log>>
    /\ UNCHANGED <<pc, phase, ct, max_turns, persona_a, persona_b, i, r,
                   prev_ended, last_utterance, messages, cur, log,
                   calls_left, rounds, resumes, stream>>

\* l.58-64: one chunk is taken from the stream and accumulated
StreamChunk ==
    /\ pc = "chat" /\ ct = "stream"
    /\ \E chunk \in Chunks :
          LET msg == chunk.message
          IN  /\ Len(ret \o msg.content) <= MaxStreamLen
              /\ Len(pending \o msg.tool_calls)
                     <= (IF rounds > 0 THEN Min(MaxCallsPerMsg, calls_left) ELSE 0)
              /\ ret' = IF msg.content # "" THEN ret \o msg.content ELSE ret
              /\ pending' = IF msg.tool_calls # <<>>
                            THEN pending \o msg.tool_calls ELSE pending
    /\ UNCHANGED <<pc, phase, ct, max_turns, persona_a, persona_b, i, r,
                   prev_ended, last_utterance, messages, cur, tool_log, log, fs,
                   calls_left, rounds, resumes, stream>>

\* mutant: the assembled message always carries a tool_calls field
Assembled_AlwaysField(content, tool_calls) ==
    [role |-> "assistant", content |-> content, tool_calls |-> tool_calls]

\* the message assembled when the stream has ended (l.66-68)
Assembled(content, tool_calls) ==
    IF tool_calls # <<>>
    THEN [role |-> "assistant", content |-> content, tool_calls |-> tool_calls]
    ELSE [role |-> "assistant", content |-> content]

\* mutant: the text that arrived along with tool calls is dropped from the
\* assembled message
StreamEnd_DropsContent ==
    /\ pc = "chat" /\ ct = "stream"
    /\ LET msg == Assembled(IF pending # <<>> THEN "" ELSE ret, pending)
       IN  /\ messages' = [messages EXCEPT ![cur] = Append(@, msg)]
           /\ IF ToolCallsOf(msg) # <<>>
              THEN /\ ct' = "tools"
                   /\ calls_left' = calls_left - Len(pending)
                   /\ rounds' = rounds - 1
                   /\ UNCHANGED <<pc, ret, pending>>
              ELSE /\ ret' = msg.content
                   /\ ct' = "idle"
                   /\ pc' = "returned"
                   /\ UNCHANGED <<pending, calls_left, rounds>>
    /\ UNCHANGED <<phase, max_turns, persona_a, persona_b, i, r, prev_ended,
                   last_utterance, cur, tool_log, log, fs, resumes, stream>>

\* l.65-75, l.92-95: the stream has ended; the assembled message is appended
StreamEnd ==
    /\ pc = "chat" /\ ct = "stream"
    /\ LET msg == Assembled(ret, pending)
       IN  /\ messages' = [messages EXCEPT ![cur] = Append(@, msg)]
           /\ IF ToolCallsOf(msg) # <<>>
              THEN /\ ct' = "tools"
                   /\ calls_left' = calls_left - Len(pending)
                   /\ rounds' = rounds - 1
                   /\ UNCHANGED <<pc, ret, pending>>
              ELSE /\ ret' = msg.content
                   /\ ct' = "idle"
                   /\ pc' = "returned"
                   /\ UNCHANGED <<pending, calls_left, rounds>>
    /\ UNCHANGED <<phase, max_turns, persona_a, persona_b, i, r, prev_ended,
                   last_utterance, cur, tool_log, log, fs, resumes, stream>>

\* l.58: the stream breaks while it is read; the error leaves chat_turn
StreamBreaks ==
    /\ pc = "chat" /\ ct = "stream"
    /\ pc' = "aborted"
    /\ ct' = "idle"
    /\ UNCHANGED <<phase, max_turns, persona_a, persona_b, i, r, prev_ended,
                   last_utterance, messages, cur, tool_log, pending, ret, log,
                   fs, calls_left, rounds, resumes, stream>>

(***************************************************************************)
(* run_agent (agent.py l.98-129).  The persona is persona_a, its history   *)
(* the list of side "a".                                                   *)
(***************************************************************************)
\* mutant: the prompt is built from the documents as they were first written
build_system_prompt_Cached(memory_dir, f) ==
    "time: now\n" \o DEFAULT_IDENTITY
        \o "\n---\nuser:\n" \o DEFAULT_MEMORY.user
        \o "\n---\nknowledge:\n" \o DEFAULT_MEMORY.knowledge
        \o "\n---\nprojects:\n" \o DEFAULT_MEMORY.projects

\* memory.py l.159-198
build_system_prompt(memory_dir, f) ==
    "time: now\n" \o read_memory("identity", memory_dir, f).result
        \o "\n---\nuser:\n" \o read_memory("user", memory_dir, f).result
        \o "\n---\nknowledge:\n" \o read_memory("knowledge", memory_dir, f).result
        \o "\n---\nprojects:\n" \o read_memory("projects", memory_dir, f).result

\* l.112
prompts == <<"continue.", "...", "">>

AGENT_STARTED == "[now] autonomous mode started."

InitAgent ==
    /\ pc = "agent_init"
    /\ phase = "agent"
    /\ ct = "idle"
    /\ max_turns \in 0..MaxTurnsBound
    /\ \E pair \in PersonaPairs : persona_a = pair[1] /\ persona_b = pair[1]
    /\ i = 0
    /\ r = 1
    /\ prev_ended = FALSE
    /\ last_utterance = ""
    /\ messages = [s \in Sides |-> <<>>]
    /\ cur = "a"
    /\ tool_log = <<>>
    /\ pending = <<>>
    /\ ret = ""
    /\ log = <<>>
    /\ fs = EmptyFS
    /\ calls_left = MaxToolCalls
    /\ rounds = MaxRounds
    /\ resumes = 0
    /\ stream = FALSE

\* l.103-113
BeginAgent ==
    /\ pc = "agent_init"
    /\ LET p == resolve_persona(persona_a)
       IN  fs' = init_memory(p.memory_dir, MkdirParents(fs, p.workspace_dir))
    /\ messages' = [s \in Sides |-> <<>>]
    /\ i' = 0
    /\ pc' = "agent_loop"
    /\ UNCHANGED <<phase, ct, max_turns, persona_a, persona_b, r, prev_ended,
                   last_utterance, cur, tool_log, pending, ret, log, calls_left,
                   rounds, resumes, stream>>

\* mutant: the loop runs one iteration too many
StartAgentTurn_OneMore ==
    /\ pc = "agent_loop" /\ i <= max_turns
    /\ \E n \in 1..Len(prompts) :
          LET system_prompt ==
                  build_system_prompt(resolve_persona(persona_a).memory_dir, fs)
              content == IF i = 0 THEN AGENT_STARTED
                         ELSE IF prompts[n] # "" THEN "[now] " \o prompts[n]
                         ELSE "[now]"
          IN  EnterChatTurn("a",
                            <<[role |-> "system", content |-> system_prompt]>>
                                \o Tail_n(messages["a"], 9),
                            content)
    /\ UNCHANGED <<phase, max_turns, persona_a, persona_b, i, r, prev_ended,
                   last_utterance, ret, log, fs, calls_left, resumes, stream>>

\* l.115-129: the head of the loop and the body up to the call of chat_turn
StartAgentTurn ==
    /\ pc = "agent_loop" /\ i < max_turns
    /\ \E n \in 1..Len(prompts) :
          LET system_prompt ==
                  build_system_prompt(resolve_persona(persona_a).memory_dir, fs)
              content == IF i = 0 THEN AGENT_STARTED
                         ELSE IF prompts[n] # "" THEN "[now] " \o prompts[n]
                         ELSE "[now]"
          IN  EnterChatTurn("a",
                            <<[role |-> "system", content |-> system_prompt]>>
                                \o Tail_n(messages["a"], 9),
                            content)
    /\ UNCHANGED <<phase, max_turns, persona_a, persona_b, i, r, prev_ended,
                   last_utterance, ret, log, fs, calls_left, resumes, stream>>

\* mutant: the loop variable does not advance when chat_turn has returned
AgentTurnDone_NoAdvance ==
    /\ pc = "returned" /\ phase = "agent"
    /\ i' = i
    /\ pc' = "agent_loop"
    /\ UNCHANGED <<phase, ct, max_turns, persona_a, persona_b, r, prev_ended,
                   last_utterance, messages, cur, tool_log, pending, ret, log,
                   fs, calls_left, rounds, resumes, stream>>

\* l.127-129, l.115: chat_turn has returned, its result is dropped
AgentTurnDone ==
    /\ pc = "returned" /\ phase = "agent"
    /\ i' = i + 1
    /\ pc' = "agent_loop"
    /\ UNCHANGED <<phase, ct, max_turns, persona_a, persona_b, r, prev_ended,
                   last_utterance, messages, cur, tool_log, pending, ret, log,
                   fs, calls_left, rounds, resumes, stream>>

\* l.115: the loop is over, run_agent returns
AgentFinish ==
    /\ pc = "agent_loop" /\ i >= max_turns
    /\ pc' = "done"
    /\ UNCHANGED <<phase, ct, max_turns, persona_a, persona_b, i, r, prev_ended,
                   last_utterance, messages, cur, tool_log, pending, ret, log,
                   fs, calls_left, rounds, resumes, stream>>

NextAgent ==
    \/ BeginAgent
    \/ StartAgentTurn
    \/ ChatRequest
    \/ ChatFails
    \/ ExecTool
    \/ ToolRaises
    \/ AgentTurnDone
    \/ AgentFinish

SpecAgent == InitAgent /\ [][NextAgent]_vars

\* run_agent with stream=True
InitStream ==
    /\ pc = "agent_init"
    /\ phase = "agent"
    /\ ct = "idle"
    /\ max_turns \in 0..MaxStreamTurns
    /\ \E pair \in PersonaPairs : persona_a = pair[1] /\ persona_b = pair[1]
    /\ i = 0
    /\ r = 1
    /\ prev_ended = FALSE
    /\ last_utterance = ""
    /\ messages = [s \in Sides |-> <<>>]
    /\ cur = "a"
    /\ tool_log = <<>>
    /\ pending = <<>>
    /\ ret = ""
    /\ log = <<>>
    /\ fs = EmptyFS
    /\ calls_left = MaxToolCalls
    /\ rounds = MaxRounds
    /\ resumes = 0
    /\ stream = TRUE

NextStream ==
    \/ BeginAgent
    \/ StartAgentTurn
    \/ StreamOpen
    \/ StreamChunk
    \/ StreamEnd
    \/ ChatFails
    \/ StreamBreaks
    \/ ExecTool
    \/ ToolRaises
    \/ AgentTurnDone
    \/ AgentFinish

SpecStream == InitStream /\ [][NextStream]_vars

\* both controllers, stream=False
InitRuns == Init \/ InitAgent

NextRuns == Next \/ NextAgent

SpecRuns == InitRuns /\ [][NextRuns]_vars

(***************************************************************************)
(* Streaming mode of chat_turn.                                            *)
(***************************************************************************)
\* the position of the assistant message whose tool calls are being executed
Answering(msgs) == LastAssistant(msgs)

\* C11: in streaming mode no tool call is executed before the stream is
\* drained: while chunks are being read neither the tool log, the history nor
\* the filesystem changes, and every step that executes a tool call finds the
\* one assembled assistant message (directly after a user or tool message, and
\* carrying every call the chunks delivered) already in the history, the call
\* executed being the next unanswered one of that message.
C11_StreamDrainedBeforeTools ==
    [][/\ (ct = "stream" /\ ct' = "stream") =>
              /\ tool_log' = tool_log /\ fs' = fs /\ messages' = messages
       /\ (ct = "stream" /\ ct' # "stream" /\ pc' = "chat") =>
              /\ tool_log' = tool_log /\ fs' = fs
              /\ messages'[cur] = Append(messages[cur], Assembled(ret, pending))
              /\ pending' = pending
       /\ (Len(tool_log') = Len(tool_log) + 1 \/ fs' # fs) /\ pc = "chat" =>
              LET h == messages[cur]
                  a == Answering(h)
              IN  /\ ct = "tools"
                  /\ a > 1
                  /\ h[a - 1].role \in {"user", "tool"}
                  /\ Len(ToolCallsOf(h[a])) >= Len(h) - a + 1
                  /\ ToolCallsOf(h[a])[Len(h) - a + 1] = Head(pending)
                  /\ tool_log'[Len(tool_log')].name = Head(pending).name
                  /\ tool_log'[Len(tool_log')].arguments = Head(pending).arguments
                  /\ SubSeq(ToolCallsOf(h[a]), Len(h) - a + 1,
                            Len(ToolCallsOf(h[a]))) = pending]_vars

\* both calls of a response streamed in several chunks have been executed
C11_Witness ==
    /\ pc = "chat" /\ ct = "request" /\ Len(tool_log) = 2
    /\ LET h == messages[cur]
           a == Answering(h)
       IN  /\ a > 0
           /\ h[a].content = "hi"
           /\ Len(ToolCallsOf(h[a])) = 2
           /\ Len(h) = a + 2

(***************************************************************************)
(* The tool loop of chat_turn and the dispatcher.                          *)
(***************************************************************************)
END_ACK == "asked to end the conversation."

\* C12: a tool call named end_conversation is handled by chat_turn itself and
\* never passed to call_tool: the step that executes it cannot fail, enters
\* the call in the turn's tool log with the acknowledgement (not the text
\* call_tool would give) as result, appends one tool message with that text,
\* and leaves the filesystem (memory documents and workspace) unchanged.
C12_EndConversationLocal ==
    [][(pc = "chat" /\ ct = "tools" /\ pending # <<>>
            /\ Head(pending).name = "end_conversation") =>
          LET tool_call == Head(pending)
              dispatched == call_tool(tool_call.name, tool_call.arguments,
                                resolve_persona(PersonaOf(cur)).memory_dir,
                                resolve_persona(PersonaOf(cur)).workspace_dir, fs)
              entry == tool_log'[Len(tool_log')]
          IN  /\ pc' = "chat"
              /\ fs' = fs
              /\ Len(tool_log') = Len(tool_log) + 1
              /\ SubSeq(tool_log', 1, Len(tool_log)) = tool_log
              /\ entry.name = "end_conversation"
              /\ entry.arguments = tool_call.arguments
              /\ IsPrefix(END_ACK, entry.result)
              /\ entry.result # dispatched.result
              /\ messages'[cur] = Append(messages[cur],
                                    [role |-> "tool", content |-> entry.result])]_vars

\* end_conversation has just been answered in a conversation turn, after a
\* tool that did write to the workspace
C12_Witness ==
    /\ pc = "chat" /\ phase = "conversation" /\ Len(tool_log) = 2
    /\ tool_log[1].name = "write_file"
    /\ tool_log[2].name = "end_conversation"
    /\ LET h == messages[cur]
       IN  h[Len(h)] = [role |-> "tool", content |-> END_ACK]

\* C13: a failure of the model request is fatal and never retried: a request
\* is either answered (the assistant message is appended to the history) or
\* ends the run in the same step, with nothing else changed; once the run
\* has ended that way neither controller (run_agent, run_conversation) can
\* take another step, so no further request is made, no record is written
\* and no tool runs.
C13_GatewayFailureFatal ==
    /\ [][(pc = "chat" /\ ct = "request") =>
             \/ /\ Len(messages'[cur]) = Len(messages[cur]) + 1
                /\ messages'[cur][Len(messages'[cur])].role = "assistant"
             \/ /\ pc' = "aborted"
                /\ messages' = messages /\ log' = log /\ fs' = fs
                /\ tool_log' = tool_log /\ i' = i]_vars
    /\ [][pc = "aborted" => UNCHANGED vars]_vars
    /\ [](pc = "aborted" => ~ENABLED NextRuns)

\* a request of a later conversation turn has failed: the turn was never
\* logged and the run is over
C13_Witness ==
    /\ pc = "aborted" /\ phase = "conversation" /\ pending = <<>>
    /\ i = 1 /\ Len(TurnRecs) = 1
    /\ messages[cur][Len(messages[cur])].role = "tool"

(***************************************************************************)
(* call_tool on its own (tools/__init__.py l.44-71): a sequence of calls   *)
(* of the dispatcher for the persona persona_a, on a filesystem that holds *)
(* a workspace, files outside of it, a symbolic link that leaves it, and   *)
(* a memory directory that may be missing.  pending holds the last call,   *)
(* tool_log the calls that returned, ret the last result, phase the family *)
(* of calls made in the run.                                               *)
(***************************************************************************)
MaxDispatches == 2        \* calls of call_tool in one run

WS == resolve_persona("alice").workspace_dir
MEM == resolve_persona("alice").memory_dir

\* a workspace with one file, one directory and a link to a directory outside
WorkspaceFS ==
    [files |-> (WS \o <<"t.txt">> :> "aaa b  c")
                 @@ (<<"etc", "passwd">> :> "root")
                 @@ (<<"out", "s.txt">> :> "secret"),
     dirs |-> Prefixes(WS) \cup {WS \o <<"d">>, <<"etc">>, <<"out">>},
     links |-> (WS \o <<"link">> :> <<"out">>)]

\* the same with a memory directory: journal and projects absent, knowledge
\* empty, user not empty
WithMemoryFS ==
    [WorkspaceFS EXCEPT
        !.dirs = @ \cup Prefixes(MEM),
        !.files = @ @@ (DocPath(MEM, "identity") :> DEFAULT_IDENTITY)
                    @@ (DocPath(MEM, "user") :> "U")
                    @@ (DocPath(MEM, "knowledge") :> "")]

ToolsFS == {WorkspaceFS, WithMemoryFS}

Call(name, arguments) == [name |-> name, arguments |-> arguments]

\* paths that resolve outside the workspace: parent traversal, absolute, link
EscapePaths == {"../memory/user.md", "/etc/passwd", "link/s.txt"}

FileCallsOn(p) ==
    {Call("read_file", [path |-> p]),
     Call("write_file", [path |-> p, content |-> "A"]),
     Call("append_file", [path |-> p, content |-> "A"]),
     Call("edit_file", [path |-> p, search |-> "s", replace |-> "X"]),
     Call("delete_file", [path |-> p]),
     Call("list_files", [path |-> p]),
     Call("mkdir", [path |-> p]),
     Call("grep_file", [path |-> p, pattern |-> "s"]),
     Call("file_info", [path |-> p])}

Searches == {"z", "b c", "b", "a", "aa", "a b", ""}

FileCalls ==
    UNION {FileCallsOn(p) : p \in EscapePaths}
    \cup {Call("edit_file", [path |-> "t.txt", search |-> s, replace |-> "X"]) :
             s \in Searches}
    \cup {Call("write_file", [path |-> "n.txt", content |-> "A"]),
          Call("write_file", [path |-> "d/../t.txt", content |-> "aXa"]),
          Call("delete_file", [path |-> "t.txt"]),
          Call("mkdir", [path |-> "d/e"]),
          Call("read_file", [path |-> "t.txt"]),
          Call("list_files", [path |-> "."])}

MemoryCalls ==
    {Call("update_memory", [category |-> c, content |-> x, mode |-> m]) :
        c \in {"journal", "knowledge", "user", "identity", "diary"},
        x \in {"A", "B"},
        m \in {"append", "replace", "prepend"}}
    \cup {Call("read_memory", [category |-> c]) :
             c \in {"journal", "knowledge", "user", "diary"}}

\* argument mappings that miss some or all required parameters, for every
\* name of the dispatch table and for names it does not hold
DispatchCalls ==
    {Call(n, NoArgs) : n \in HandlerNames \cup {"bogus", "end_conversation"}}
    \cup {Call(n, [path |-> "n.txt"]) :
             n \in {"write_file", "edit_file", "grep_file", "bogus"}}
    \cup {Call(n, [path |-> "n.txt", content |-> "A"]) :
             n \in {"write_file", "bogus", "end_conversation", "Write_File"}}
    \cup {Call("update_memory", [category |-> "journal", content |-> "A"]),
          Call("update_memory", [category |-> "journal", content |-> "A",
                                 mode |-> "append"]),
          Call("http_request", [url |-> "http://x"]),
          Call("get_weather", [city |-> "Tokyo"]),
          Call("get_weather", [location |-> "Tokyo"])}

\* calls on and around the workspace root itself
RootCalls ==
    {Call("delete_file", [path |-> p]) :
        p \in {".", "", "n.txt", "d", "..", "../memory", "../memory/journal.md"}}
    \cup {Call("write_file", [path |-> "n.txt", content |-> "A"]),
          Call("write_file", [path |-> "d/n.txt", content |-> "A"]),
          Call("mkdir", [path |-> "d"]),
          Call("list_files", [path |-> "."]),
          Call("file_info", [path |-> "."]),
          Call("get_weather", NoArgs),
          Call("update_memory", [category |-> "journal", content |-> "A",
                                 mode |-> "replace"])}

IDENTITY_PATHS ==
    {"../memory/identity.md", "mem/identity.md",
     "/cwd/personas/alice/memory/identity.md"}

\* calls aimed at the identity document and at the directory that holds it
IdentityCalls ==
    UNION {FileCallsOn(p) : p \in IDENTITY_PATHS}
    \cup {Call("update_memory", [category |-> "identity", content |-> "A",
                                 mode |-> m]) : m \in {"append", "replace"}}
    \cup {Call("update_memory", [category |-> "journal", content |-> "A",
                                 mode |-> "append"]),
          Call("read_memory", [category |-> "identity"]),
          Call("delete_file", [path |-> "../memory"]),
          Call("delete_file", [path |-> "mem"]),
          Call("write_file", [path |-> "identity.md", content |-> "A"]),
          Call("get_weather", NoArgs)}

Families == {"files", "memory", "dispatch"}

CallsOf(family) ==
    CASE family = "files" -> FileCalls
      [] family = "memory" -> MemoryCalls
      [] family = "dispatch" -> DispatchCalls
      [] family = "root" -> RootCalls
      [] family = "identity" -> IdentityCalls

InitTools ==
    /\ pc = "call"
    /\ phase \in Families
    /\ fs \in ToolsFS
    /\ calls_left = MaxDispatches
    /\ ct = "idle"
    /\ max_turns = 0
    /\ persona_a = "alice" /\ persona_b = "alice"
    /\ i = 0
    /\ r = 1
    /\ prev_ended = FALSE
    /\ last_utterance = ""
    /\ messages = [s \in Sides |-> <<>>]
    /\ cur = "a"
    /\ tool_log = <<>>
    /\ pending = <<>>
    /\ ret = ""
    /\ log = <<>>
    /\ rounds = 0
    /\ resumes = 0
    /\ stream = FALSE

\* call_tool returns a text
Dispatch ==
    /\ pc = "call" /\ calls_left > 0
    /\ \E tool_call \in CallsOf(phase) :
          LET out == call_tool(tool_call.name, tool_call.arguments,
                               resolve_persona(persona_a).memory_dir,
                               resolve_persona(persona_a).workspace_dir, fs)
          IN  /\ ~out.raised
              /\ fs' = out.fs
              /\ ret' = out.result
              /\ pending' = <<tool_call>>
              /\ tool_log' = Append(tool_log,
                                    [name |-> tool_call.name,
                                     arguments |-> tool_call.arguments,
                                     result |-> out.result])
    /\ calls_left' = calls_left - 1
    /\ UNCHANGED <<pc, phase, ct, max_turns, persona_a, persona_b, i, r,
                   prev_ended, last_utterance, messages, cur, log, rounds,
                   resumes, stream>>

\* an exception leaves call_tool
DispatchRaises ==
    /\ pc = "call" /\ calls_left > 0
    /\ \E tool_call \in CallsOf(phase) :
          LET out == call_tool(tool_call.name, tool_call.arguments,
                               resolve_persona(persona_a).memory_dir,
                               resolve_persona(persona_a).workspace_dir, fs)
          IN  /\ out.raised
              /\ pending' = <<tool_call>>
    /\ pc' = "raised"
    /\ UNCHANGED <<phase, ct, max_turns, persona_a, persona_b, i, r,
                   prev_ended, last_utterance, messages, cur, tool_log, ret,
                   log, fs, calls_left, rounds, resumes, stream>>

NextTools == Dispatch \/ DispatchRaises

SpecTools == InitTools /\ [][NextTools]_vars

\* the step is a call of call_tool; Made is the call
IsDispatch == pc = "call" /\ (pc' = "raised" \/ calls_left' = calls_left - 1)
Made == pending'[1]
MissingOf(tool_call) ==
    SelectSeq(Required(tool_call.name), LAMBDA p : p \notin DOMAIN tool_call.arguments)

\* C14: a tool execution failure is never fatal to a turn: whatever tool call
\* of an assistant message chat_turn executes, call_tool returns a text, the
\* text is appended as a tool message and chat_turn stays in its loop.
C14_ToolFailureNeverFatal ==
    [][(pc = "chat" /\ ct = "tools" /\ pending # <<>>) =>
          /\ pc' = "chat"
          /\ Len(messages'[cur]) = Len(messages[cur]) + 1
          /\ messages'[cur][Len(messages'[cur])].role = "tool"]_vars

\* C15: for every name of the dispatch table (get_weather included) and every
\* argument mapping that misses required parameters, call_tool returns a text
\* that contains the tool name and every missing parameter name, and the
\* filesystem (workspace and memory) is unchanged.
C15_MissingParametersReported ==
    [][(IsDispatch /\ Made.name \in HandlerNames /\ MissingOf(Made) # <<>>) =>
          /\ pc' = "call"
          /\ fs' = fs
          /\ Contains(ret', Made.name)
          /\ \A n \in 1..Len(MissingOf(Made)) :
                Contains(ret', MissingOf(Made)[n])]_vars

\* C16: for every tool name outside the dispatch table, whatever the
\* arguments, call_tool returns the unknown-tool text (it does not raise),
\* and the filesystem (workspace and memory) is unchanged.
C16_UnknownTool ==
    [][(IsDispatch /\ Made.name \notin HandlerNames) =>
          /\ pc' = "call"
          /\ ret' = "unknown tool: " \o Made.name
          /\ tool_log'[Len(tool_log')].result = ret'
          /\ fs' = fs]_vars

\* an unknown name has been called with arguments that would write a file,
\* after a call that did write it
C16_Witness ==
    /\ pc = "call" /\ Len(tool_log) = 2
    /\ tool_log[1].name = "write_file" /\ tool_log[1].result = "written: n.txt"
    /\ tool_log[2].name = "Write_File"
    /\ tool_log[2].arguments = [path |-> "n.txt", content |-> "A"]
    /\ ret = "unknown tool: Write_File"

FileToolNames ==
    {"read_file", "write_file", "append_file", "edit_file", "delete_file",
     "list_files", "mkdir", "grep_file", "file_info"}

\* C17: for a path that resolves outside the workspace (parent traversal,
\* absolute path, symbolic link that points outside), each of the nine file
\* tools returns the one sandbox-violation text and leaves the filesystem
\* unchanged.
C17_SandboxViolation ==
    [][(IsDispatch /\ Made.name \in FileToolNames
            /\ "path" \in DOMAIN Made.arguments
            /\ Made.arguments.path \in EscapePaths) =>
          /\ pc' = "call"
          /\ ret' = SANDBOX_ERROR
          /\ fs' = fs]_vars

\* a write through the link and a delete by parent traversal have both been
\* refused, the targets exist and are untouched
C17_Witness ==
    /\ pc = "call" /\ Len(tool_log) = 2
    /\ tool_log[1] = [name |-> "write_file",
                      arguments |-> [path |-> "link/s.txt", content |-> "A"],
                      result |-> SANDBOX_ERROR]
    /\ tool_log[2] = [name |-> "delete_file",
                      arguments |-> [path |-> "../memory/user.md"],
                      result |-> SANDBOX_ERROR]
    /\ fs = WithMemoryFS
    /\ fs.files[<<"out", "s.txt">>] = "secret"

\* the positions at which search occurs in content
Occurrences(content, search) ==
    {n \in 1..(Len(content) - Len(search) + 1) :
        SubSeq(content, n, n + Len(search) - 1) = search}

EditedPath == WS \o <<"t.txt">>

\* C18: edit_file on an existing file: a search string that occurs nowhere
\* gives an error and leaves the file as it is (also when it matches after
\* white space is normalized); one that occurs exactly once is replaced at
\* that place; one that occurs at two or more places gives an error and
\* leaves the file as it is.
C18_EditFileOccurrences ==
    [][(IsDispatch /\ Made.name = "edit_file"
            /\ DOMAIN Made.arguments = {"path", "search", "replace"}
            /\ Made.arguments.path = "t.txt"
            /\ IsFile(fs, EditedPath)) =>
          LET content == fs.files[EditedPath]
              search == Made.arguments.search
              occ == Occurrences(content, search)
          IN  /\ pc' = "call"
              /\ Cardinality(occ) = 0 =>
                    /\ IsPrefix("Error", ret') /\ fs' = fs
              /\ Cardinality(occ) = 1 =>
                    /\ \E n \in occ :
                          fs'.files[EditedPath] =
                              SubSeq(content, 1, n - 1) \o Made.arguments.replace
                                  \o SubSeq(content, n + Len(search), Len(content))
                    /\ fs' = WriteText(fs, EditedPath, fs'.files[EditedPath])
              /\ Cardinality(occ) >= 2 =>
                    /\ IsPrefix("Error", ret') /\ fs' = fs]_vars

\* the stored content of a memory document, None when there is none
Stored(f, category) ==
    IF IsFile(f, DocPath(MEM, category)) THEN f.files[DocPath(MEM, category)]
    ELSE None

\* the writable categories that are absent or empty before the first call
BlankAtStart == {"journal", "knowledge"}

UpdateOf(entry, category, content, mode) ==
    /\ entry.name = "update_memory"
    /\ entry.arguments = [category |-> category, content |-> content, mode |-> mode]
    /\ IsPrefix("memory updated", entry.result)

\* C19: on a writable category that is absent or empty at the start, the
\* updates "A" then "B" in mode append leave the stored content "A\nB", and
\* the same two updates in mode replace leave "B"; more generally an append
\* stores the content verbatim on an absent or empty document and the old
\* content, one newline and the content otherwise, and a replace stores
\* exactly the content.
C19_AppendThenAppend ==
    /\ [](\A c \in BlankAtStart :
             /\ (Len(tool_log) = 2 /\ UpdateOf(tool_log[1], c, "A", "append")
                    /\ UpdateOf(tool_log[2], c, "B", "append"))
                   => Stored(fs, c) = "A\nB"
             /\ (Len(tool_log) = 2 /\ UpdateOf(tool_log[1], c, "A", "replace")
                    /\ UpdateOf(tool_log[2], c, "B", "replace"))
                   => Stored(fs, c) = "B")
    /\ [][(IsDispatch /\ pc' = "call" /\ Made.name = "update_memory"
              /\ IsPrefix("memory updated", ret')) =>
             LET c == Made.arguments.category
                 x == Made.arguments.content
             IN  Stored(fs', c) =
                    IF Made.arguments.mode = "replace" THEN x
                    ELSE IF Stored(fs, c) \in {None, ""} THEN x
                    ELSE Stored(fs, c) \o "\n" \o x]_vars

\* "A" then "B" have been appended to the absent journal
C19_Witness ==
    /\ Len(tool_log) = 2
    /\ UpdateOf(tool_log[1], "journal", "A", "append")
    /\ UpdateOf(tool_log[2], "journal", "B", "append")
    /\ Stored(fs, "journal") = "A\nB"
    /\ Stored(fs, "knowledge") = ""

\* C20: update_memory on identity or on a category that is not one of the
\* four writable ones, or with a mode other than replace and append, returns
\* an error text, and no document is changed or created.
C20_UpdateRejected ==
    [][(IsDispatch /\ Made.name = "update_memory"
            /\ DOMAIN Made.arguments = {"category", "content", "mode"}
            /\ \/ ~InSeq(Made.arguments.category, WRITABLE_CATEGORIES)
               \/ Made.arguments.mode \notin {"replace", "append"}) =>
          /\ pc' = "call"
          /\ IsPrefix("Error", ret')
          /\ fs' = fs]_vars

\* an update of identity and an update with an unknown mode have been
\* refused; identity holds its text and the journal still does not exist
C20_Witness ==
    /\ Len(tool_log) = 2 /\ pc = "call"
    /\ tool_log[1].arguments = [category |-> "identity", content |-> "A",
                                mode |-> "replace"]
    /\ tool_log[2].arguments = [category |-> "journal", content |-> "B",
                                mode |-> "prepend"]
    /\ IsPrefix("Error", tool_log[1].result) /\ IsPrefix("Error", tool_log[2].result)
    /\ Stored(fs, "identity") = DEFAULT_IDENTITY
    /\ Stored(fs, "journal") = None

(***************************************************************************)
(* The memory store.                                                       *)
(***************************************************************************)
\* C21: read_memory of one of the five categories returns the stored text,
\* and the empty string when the document is absent (as it does for an empty
\* document), never an error; for a category outside the five it returns an
\* error text that names the category; it never changes the filesystem.
C21_ReadMemory ==
    [][(IsDispatch /\ Made.name = "read_memory"
            /\ DOMAIN Made.arguments = {"category"}) =>
          LET c == Made.arguments.category
          IN  /\ pc' = "call"
              /\ fs' = fs
              /\ InSeq(c, MEMORY_CATEGORIES) =>
                    ret' = IF IsFile(fs, DocPath(MEM, c)) THEN Stored(fs, c) ELSE ""
              /\ ~InSeq(c, MEMORY_CATEGORIES) =>
                    /\ IsPrefix("Error", ret')
                    /\ Contains(ret', c)]_vars

\* the absent journal and the empty knowledge document have both been read
\* as the empty string
C21_Witness ==
    /\ pc = "call" /\ Len(tool_log) = 2
    /\ tool_log[1] = [name |-> "read_memory",
                      arguments |-> [category |-> "journal"], result |-> ""]
    /\ tool_log[2] = [name |-> "read_memory",
                      arguments |-> [category |-> "knowledge"], result |-> ""]
    /\ ~Exists(fs, DocPath(MEM, "journal"))
    /\ Stored(fs, "knowledge") = ""

(***************************************************************************)
(* create_persona (agent.py l.32-37) between calls of the dispatcher: the  *)
(* workspace and the memory of the persona are set up again, as every      *)
(* start of a controller does.                                             *)
(***************************************************************************)
create_persona ==
    /\ pc = "call"
    /\ LET p == resolve_persona(persona_a)
       IN  fs' = init_memory(p.memory_dir, MkdirParents(fs, p.workspace_dir))
    /\ UNCHANGED <<pc, phase, ct, max_turns, persona_a, persona_b, i, r,
                   prev_ended, last_utterance, messages, cur, tool_log, pending,
                   ret, log, calls_left, rounds, resumes, stream>>

InitSetup == InitTools /\ phase = "memory"

NextSetup == Dispatch \/ DispatchRaises \/ create_persona

SpecSetup == InitSetup /\ [][NextSetup]_vars

DefaultOf(category) ==
    IF category = "identity" THEN DEFAULT_IDENTITY ELSE DEFAULT_MEMORY[category]

Docs == {DocPath(MEM, MEMORY_CATEGORIES[n]) : n \in 1..Len(MEMORY_CATEGORIES)}

\* the step sets the persona up (it is no call of the dispatcher)
IsSetup == pc = "call" /\ pc' = "call" /\ calls_left' = calls_left

\* C22: init_memory never overwrites and is idempotent: it writes the default
\* text for exactly those of the five documents that do not exist, leaves
\* every existing document (one written by update_memory included) and every
\* other file as it is, and applied again to its result it changes nothing.
C22_InitMemoryIdempotent ==
    [][IsSetup =>
          /\ \A n \in 1..Len(MEMORY_CATEGORIES) :
                LET c == MEMORY_CATEGORIES[n]
                IN  /\ IsFile(fs', DocPath(MEM, c))
                    /\ fs'.files[DocPath(MEM, c)] =
                          IF IsFile(fs, DocPath(MEM, c))
                          THEN fs.files[DocPath(MEM, c)] ELSE DefaultOf(c)
          /\ \A q \in DOMAIN fs.files : fs'.files[q] = fs.files[q]
          /\ DOMAIN fs'.files = DOMAIN fs.files \cup Docs
          /\ init_memory(MEM, fs') = fs']_vars

\* the journal written by update_memory and the documents that existed have
\* survived the set-up, the missing projects document got its default text
C22_Witness ==
    /\ Len(tool_log) = 1
    /\ UpdateOf(tool_log[1], "journal", "A", "replace")
    /\ Stored(fs, "journal") = "A"
    /\ Stored(fs, "user") = "U"
    /\ Stored(fs, "knowledge") = ""
    /\ Stored(fs, "projects") = DEFAULT_MEMORY.projects
    /\ Stored(fs, "identity") = DEFAULT_IDENTITY

(***************************************************************************)
(* The history window of the controllers.                                  *)
(***************************************************************************)
SystemAt(msgs) == {k \in 1..Len(msgs) : msgs[k].role = "system"}

\* C23: in both controllers the history passed to a model request begins with
\* a system message and holds no other system message: those of earlier
\* iterations are not retained.
C23_OneSystemMessage ==
    [](pc = "chat" /\ ct = "request" => SystemAt(messages[cur]) = {1})

MaxLongTurns == 7         \* max_turns of the long conversations
LongToolCalls == 1        \* tool calls in one long conversation

\* a conversation long enough for a history to outgrow the window; the
\* backend answers with few tool calls
InitLong ==
    /\ pc = "init"
    /\ phase = "conversation"
    /\ ct = "idle"
    /\ max_turns = MaxLongTurns
    /\ \E pair \in PersonaPairs : persona_a = pair[1] /\ persona_b = pair[2]
    /\ i = 0
    /\ r = 1
    /\ prev_ended = FALSE
    /\ last_utterance = ""
    /\ messages = [s \in Sides |-> <<>>]
    /\ cur = "a"
    /\ tool_log = <<>>
    /\ pending = <<>>
    /\ ret = ""
    /\ log = <<>>
    /\ fs = EmptyFS
    /\ calls_left = LongToolCalls
    /\ rounds = MaxRounds
    /\ resumes = 0
    /\ stream = FALSE

SpecLong == InitLong /\ [][Next]_vars

\* C24: at the start of each conversation turn and each reflection turn the
\* history of the active persona becomes the fresh system message (built from
\* the memory as it is now), followed by its last min(9, n) messages that are
\* no system messages, in their order, n being the number it held; then the
\* user message of the turn.  Before that user message it holds at most 10
\* messages.
C24_HistoryWindow ==
    [][(pc \in {"loop", "reflection"} /\ pc' = "chat") =>
          LET side == cur'
              old == messages[side]
              new == messages'[side]
              kept == SelectSeq(old, LAMBDA m : m.role # "system")
              n == Len(kept)
              k == IF n < 9 THEN n ELSE 9
              other == IF pc = "reflection" THEN ""
                       ELSE PersonaOf(IF side = "a" THEN "b" ELSE "a")
          IN  /\ Len(new) = k + 2
              /\ k + 1 <= 10
              /\ new[1] = [role |-> "system",
                           content |-> build_conversation_prompt(
                                           resolve_persona(PersonaOf(side)).memory_dir,
                                           other, fs)]
              /\ \A j \in 1..k : new[j + 1] = kept[n - k + j]
              /\ new[k + 2].role = "user"]_vars

\* persona A reflects on a window of nine messages whose first is an
\* assistant message: the opening user message of turn 0 has been discarded
C24_Witness ==
    /\ pc = "chat" /\ phase = "reflection" /\ cur = "a" /\ ct = "request"
    /\ Len(messages["a"]) = 11
    /\ messages["a"][2].role = "assistant"
    /\ messages["a"][11] = [role |-> "user", content |-> REFLECT]

(***************************************************************************)
(* run_agent.                                                              *)
(***************************************************************************)
CountRole(msgs, role) == Cardinality({k \in 1..Len(msgs) : msgs[k].role = role})

\* C25: run_agent makes one chat_turn invocation per iteration for exactly
\* max_turns iterations and then returns: a turn is started only while
\* i < max_turns, i grows by one exactly when a chat_turn returns, the run
\* ends with i = max_turns and nothing follows; i never exceeds max_turns and
\* inside a turn chat_turn is either at a request or at a tool call of the
\* last answer.  When
\* the model requests no tool, a turn is one request: the request that is
\* answered returns from chat_turn, and a history that never outgrew the
\* window holds i user messages and i assistant messages after i turns.
C25_AgentTurnCount ==
    /\ [][/\ (pc = "agent_loop" /\ pc' = "chat") => i < max_turns /\ i' = i
          /\ (pc = "returned" /\ pc' # "returned") => pc' = "agent_loop" /\ i' = i + 1
          /\ i' # i => pc = "returned"
          /\ (pc = "chat" /\ ct = "request" /\ calls_left' = MaxToolCalls
                 /\ pc' # "aborted") => pc' = "returned"
          /\ pc' = "done" => i = max_turns]_vars
    /\ [](pc = "done" => i = max_turns /\ ~ENABLED NextAgent)
    /\ []((calls_left = MaxToolCalls /\ pc \in {"agent_loop", "done"}
              /\ Len(messages["a"]) <= 9) =>
             /\ CountRole(messages["a"], "user") = i
             /\ CountRole(messages["a"], "assistant") = i)
    /\ [](phase = "agent" =>
             /\ pc \in {"agent_init", "agent_loop", "chat", "returned", "done",
                        "aborted"}
             /\ i <= max_turns
             /\ pc = "chat" => /\ i < max_turns
                               /\ ct \in {"request", "tools"}
                               /\ ct = "tools" => pending # <<>>)

\* run_agent has returned after max_turns = 3 turns without any tool call
C25_Witness ==
    /\ pc = "done" /\ phase = "agent" /\ max_turns = 3 /\ i = 3
    /\ calls_left = MaxToolCalls
    /\ CountRole(messages["a"], "assistant") = 3

\* C26: the system prompt of an iteration of run_agent is built from the
\* memory documents as they are on disk when the iteration starts: the
\* system message that heads the history contains the stored text of
\* identity, user, knowledge and projects, whatever update_memory wrote
\* during the iteration before.
C26_PromptFromDisk ==
    [][(pc = "agent_loop" /\ pc' = "chat") =>
          LET system == messages'["a"][1]
              mem == resolve_persona(persona_a).memory_dir
          IN  /\ system.role = "system"
              /\ \A c \in {"identity", "user", "knowledge", "projects"} :
                    /\ IsFile(fs, DocPath(mem, c))
                    /\ Contains(system.content, fs.files[DocPath(mem, c)])]_vars

\* iteration 1 has started with a prompt that holds what update_memory
\* appended to knowledge during iteration 0
C26_Witness ==
    /\ phase = "agent" /\ pc = "chat" /\ ct = "request" /\ i = 1
    /\ tool_log = <<>>
    /\ messages["a"][Len(messages["a"])].role = "user"
    /\ Contains(messages["a"][1].content, DEFAULT_MEMORY.knowledge \o "\nA")
    /\ ~Contains(messages["a"][2].content, DEFAULT_MEMORY.knowledge \o "\nA")

(***************************************************************************)
(* The dispatcher on a persona that has just been created: the default     *)
(* memory documents and an empty workspace.                                *)
(***************************************************************************)
FreshFS == init_memory(MEM, MkdirParents(EmptyFS, WS))

InitRoot ==
    /\ pc = "call"
    /\ phase = "root"
    /\ fs = FreshFS
    /\ calls_left = MaxDispatches
    /\ ct = "idle"
    /\ max_turns = 0
    /\ persona_a = "alice" /\ persona_b = "alice"
    /\ i = 0
    /\ r = 1
    /\ prev_ended = FALSE
    /\ last_utterance = ""
    /\ messages = [s \in Sides |-> <<>>]
    /\ cur = "a"
    /\ tool_log = <<>>
    /\ pending = <<>>
    /\ ret = ""
    /\ log = <<>>
    /\ rounds = 0
    /\ resumes = 0
    /\ stream = FALSE

SpecRoot == InitRoot /\ [][NextTools]_vars

\* C27: once the memory and workspace directories of a persona exist, no
\* sequence of calls of the dispatcher deletes them; no file tool removes
\* the workspace root.
C27_RootsNeverDeleted ==
    [](IsDir(fs, WS) /\ IsDir(fs, MEM))

(***************************************************************************)
(* The records of a conversation and their order.                          *)
(***************************************************************************)
EndAt == CHOOSE e \in 1..Len(log) : log[e].event = "end"

\* C28: a conversation writes at most one end record, and exactly one once
\* its loop is over; its reason is both_ended or max_turns; when the last
\* two turns both asked to end (also when the second is the last permitted
\* turn, index max_turns - 1) the reason is both_ended and there is no
\* max_turns record; the end record follows the start record and every turn
\* record and precedes the reflection records, of which a completed run has
\* two.
C28_OneEndRecord ==
    [](/\ Len(EndRecs) <= 1
       /\ (pc \in {"reflection", "done"} \/ phase = "reflection") => Len(EndRecs) = 1
       /\ Len(EndRecs) = 0 => ReflectionRecs = <<>>
       /\ Len(EndRecs) = 1 =>
             /\ EndRecs[1].reason \in {"both_ended", "max_turns"}
             /\ EndAt = Len(TurnRecs) + 2
             /\ log[1].event = "start"
             /\ \A k \in 2..(EndAt - 1) : log[k].event = "turn"
             /\ \A k \in (EndAt + 1)..Len(log) : log[k].event = "reflection"
             /\ BothEndedAt(TurnRecs, Len(TurnRecs)) <=>
                    EndRecs[1].reason = "both_ended"
             /\ EndRecs[1].reason = "max_turns" => Len(TurnRecs) = max_turns
       /\ pc = "done" => Len(ReflectionRecs) = 2)

\* a run has completed in which the consensus was reached on the last
\* permitted turn
C28_Witness ==
    /\ pc = "done" /\ max_turns = 3 /\ Len(TurnRecs) = 3
    /\ BothEndedAt(TurnRecs, 3)
    /\ EndRecs = <<BOTH_ENDED>>
    /\ Len(log) = 7

OtherSide(side) == IF side = "a" THEN "b" ELSE "a"

ChangedFiles(f, g) ==
    {q \in DOMAIN f.files \cup DOMAIN g.files :
        q \notin DOMAIN f.files \/ q \notin DOMAIN g.files \/ f.files[q] # g.files[q]}

\* C29: the personas alternate, A first: turn i is run by A when i is even
\* and by B when i is odd, on that persona's own history, and what its tools
\* write lies in that persona's own directories; the user message of turn 0
\* is the fixed opening prompt and the user message of a turn i > 0 is the
\* final utterance of turn i-1, the content of the assistant message that
\* ended it and of its turn record.
C29_Alternation ==
    /\ [][(pc = "loop" /\ pc' = "chat") =>
             LET side == IF i % 2 = 0 THEN "a" ELSE "b"
                 new == messages'[side]
                 theirs == messages[OtherSide(side)]
             IN  /\ cur' = side
                 /\ messages'[OtherSide(side)] = theirs
                 /\ new[Len(new)].role = "user"
                 /\ i = 0 => new[Len(new)].content = OPENING(PersonaOf(OtherSide(side)))
                 /\ i > 0 => /\ theirs[Len(theirs)].role = "assistant"
                             /\ new[Len(new)].content = theirs[Len(theirs)].content
                             /\ new[Len(new)].content = TurnRecs[i].content]_vars
    /\ [][(pc = "chat" /\ phase = "conversation") =>
             /\ messages'[OtherSide(cur)] = messages[OtherSide(cur)]
             /\ \A q \in ChangedFiles(fs, fs') :
                   IsPrefix(PERSONAS_DIR \o <<PersonaOf(cur)>>, q)]_vars
    /\ [](\A k \in 1..Len(TurnRecs) :
             /\ TurnRecs[k].turn = k - 1
             /\ TurnRecs[k].persona = IF (k - 1) % 2 = 0 THEN persona_a ELSE persona_b)

\* B answers in turn 1 to what A said in turn 0, and has written to its own
\* workspace
C29_Witness ==
    /\ pc = "chat" /\ phase = "conversation" /\ i = 1 /\ cur = "b"
    /\ Len(tool_log) = 1 /\ tool_log[1].name = "write_file"
    /\ IsFile(fs, resolve_persona(persona_b).workspace_dir \o <<"note.txt">>)
    /\ ~IsFile(fs, resolve_persona(persona_a).workspace_dir \o <<"note.txt">>)
    /\ messages["b"][2] = [role |-> "user", content |-> "bye"]
    /\ TurnRecs[1].content = "bye"

\* C30: the turn record of turn i is written as soon as the chat_turn of
\* turn i has returned and before anything else happens: the step after the
\* return appends it (same content and tool calls as returned) and changes
\* neither a history nor the filesystem; the end record that turn i
\* triggers is appended right behind it; when a request of turn i is made
\* the records of turns 0..i-1 are in the log, and when a reflection turn
\* runs every turn record and the end record are.
C30_TurnRecordFirst ==
    /\ [][(pc = "returned" /\ phase = "conversation") =>
             /\ log' = Append(log, [event |-> "turn", turn |-> i,
                                    persona |-> PersonaOf(cur), content |-> ret,
                                    tool_calls |-> tool_log])
             /\ messages' = messages /\ fs' = fs /\ i' = i]_vars
    /\ [][Len(EndRecs') > Len(EndRecs) =>
             /\ log[Len(log)].event \in {"start", "turn"}
             /\ log[Len(log)].event = "start" => max_turns = 0
             /\ log' = Append(log, log'[Len(log')])]_vars
    /\ []((pc = "chat" /\ phase = "conversation") =>
             /\ Len(TurnRecs) = i /\ EndRecs = <<>> /\ Len(log) = i + 1)
    /\ [](pc = "consensus" =>
             /\ Len(TurnRecs) = i + 1 /\ EndRecs = <<>>
             /\ log[Len(log)].event = "turn" /\ log[Len(log)].turn = i)
    /\ [](phase = "reflection" =>
             /\ Len(EndRecs) = 1
             /\ Len(TurnRecs) = IF EndRecs[1].reason = "max_turns" THEN max_turns
                                ELSE i + 1)

\* turn 1 has returned and its record is the last of the log, before the
\* end record it is about to trigger
C30_Witness ==
    /\ pc = "consensus" /\ i = 1 /\ prev_ended
    /\ Ended(log[Len(log)])
    /\ log[Len(log)].turn = 1
    /\ log[Len(log)].content = ret
    /\ EndRecs = <<>>

(***************************************************************************)
(* The message assembled from a stream.                                    *)
(***************************************************************************)
\* C31: in streaming mode the content of the assembled assistant message is
\* the concatenation of the content fragments of the chunks in arrival order
\* and its tool calls are the concatenation of the tool-call lists of the
\* chunks in arrival order: the stream starts from the empty content and the
\* empty list, every chunk appends its fragment and its list at the end (two
\* equal calls stay two calls), and the message appended when the stream has
\* ended holds exactly what was accumulated, with a tool_calls field only
\* when at least one tool call arrived.
C31_StreamAssembly ==
    [][/\ (pc = "chat" /\ ct = "request" /\ ct' = "stream") =>
              ret' = "" /\ pending' = <<>>
       /\ (ct = "stream" /\ ct' = "stream") =>
              \E chunk \in Chunks :
                  /\ ret' = ret \o chunk.message.content
                  /\ pending' = pending \o chunk.message.tool_calls
       /\ (ct = "stream" /\ pc' = "chat" /\ ct' # "stream") =>
              LET h == messages'[cur]
                  msg == h[Len(h)]
              IN  /\ h = Append(messages[cur], msg)
                  /\ msg.role = "assistant"
                  /\ msg.content = ret
                  /\ "tool_calls" \in DOMAIN msg <=> pending # <<>>
                  /\ pending # <<>> => msg.tool_calls = pending
       /\ (ct = "stream" /\ pc' = "returned") =>
              LET h == messages'[cur]
                  msg == h[Len(h)]
              IN  /\ h = Append(messages[cur], msg)
                  /\ pending = <<>>
                  /\ DOMAIN msg = {"role", "content"}
                  /\ msg.content = ret /\ ret' = ret]_vars

\* a message assembled from the fragments "i" and "h" and from two chunks
\* that each carried the same tool call
C31_Witness ==
    /\ pc = "chat" /\ ct = "tools" /\ tool_log = <<>>
    /\ LET h == messages[cur]
           msg == h[Len(h)]
       IN  /\ msg.role = "assistant"
           /\ msg.content = "ih"
           /\ "tool_calls" \in DOMAIN msg
           /\ Len(msg.tool_calls) = 2
           /\ msg.tool_calls[1] = msg.tool_calls[2]

(***************************************************************************)
(* The acknowledgement of end_conversation.                                *)
(***************************************************************************)
\* C32: the tool message with which chat_turn answers an end_conversation
\* call is one fixed acknowledgement string, the same for every such call
\* whatever its arguments, with or without a reason: the step that answers
\* the call appends a tool message whose content is exactly END_ACK.
C32_FixedAcknowledgement ==
    [][(pc = "chat" /\ ct = "tools" /\ pending # <<>>
            /\ Head(pending).name = "end_conversation") =>
          messages'[cur] =
              Append(messages[cur], [role |-> "tool", content |-> END_ACK])]_vars

(***************************************************************************)
(* The consensus needs two turns.                                          *)
(***************************************************************************)
\* the number of end_conversation calls of a turn record
EndCalls(rec) ==
    Len(SelectSeq(rec.tool_calls, LAMBDA tc : tc.name = "end_conversation"))

\* C33: several end_conversation calls in one turn count as one end request,
\* so that a turn never closes the conversation alone: wherever the log holds
\* the record end/both_ended, the two records before it are the records of
\* two consecutive turns that both asked to end, the later one is not turn 0,
\* max_turns is at least 2 and (the personas being distinct) the two turns
\* are turns of different personas; and while only one turn has been made,
\* however many times it asked to end, no such record has been written.
C33_NoTurnClosesAlone ==
    /\ \A p \in 1..Len(log) :
          (log[p].event = "end" /\ log[p].reason = "both_ended") =>
              /\ p >= 3
              /\ max_turns >= 2
              /\ log[p - 1].event = "turn" /\ log[p - 2].event = "turn"
              /\ log[p - 1].turn >= 1
              /\ log[p - 1].turn = log[p - 2].turn + 1
              /\ Ended(log[p - 1]) /\ Ended(log[p - 2])
              /\ persona_a # persona_b => log[p - 1].persona # log[p - 2].persona
    /\ Len(TurnRecs) <= 1 => ~HasEnd(log, "both_ended")

\* turn 0 called end_conversation twice and the conversation goes on with
\* turn 1
C33_Witness ==
    /\ pc = "loop" /\ i = 1 /\ prev_ended
    /\ Len(TurnRecs) = 1
    /\ EndCalls(TurnRecs[1]) = 2
    /\ EndRecs = <<>>

(***************************************************************************)
(* The identity document is read-only for the tools.                       *)
(***************************************************************************)
\* a persona directory as create_persona leaves it, with a link in the
\* workspace that points to the memory directory
IdentityFS == [FreshFS EXCEPT !.links = (WS \o <<"mem">>) :> MEM]

InitIdentity ==
    /\ pc = "call"
    /\ phase = "identity"
    /\ fs = IdentityFS
    /\ calls_left = MaxDispatches
    /\ ct = "idle"
    /\ max_turns = 0
    /\ persona_a = "alice" /\ persona_b = "alice"
    /\ i = 0
    /\ r = 1
    /\ prev_ended = FALSE
    /\ last_utterance = ""
    /\ messages = [s \in Sides |-> <<>>]
    /\ cur = "a"
    /\ tool_log = <<>>
    /\ pending = <<>>
    /\ ret = ""
    /\ log = <<>>
    /\ rounds = 0
    /\ resumes = 0
    /\ stream = FALSE

SpecIdentity == InitIdentity /\ [][NextTools]_vars

\* C34: no sequence of tool calls dispatched for a persona changes that
\* persona's identity document: update_memory rejects the category identity
\* and no path given to a file tool, resolved against the workspace root,
\* reaches the sibling memory directory; the document stays the file it was.
C34_IdentityUnchanged ==
    [](/\ IsFile(fs, DocPath(MEM, "identity"))
       /\ fs.files[DocPath(MEM, "identity")] = DEFAULT_IDENTITY
       /\ IsDir(fs, MEM))

\* update_memory on identity and a write through the link to the memory
\* directory have both been answered with an error
C34_Witness ==
    /\ pc = "call" /\ Len(tool_log) = 2
    /\ tool_log[1].name = "update_memory"
    /\ tool_log[1].arguments = [category |-> "identity", content |-> "A",
                                mode |-> "replace"]
    /\ tool_log[1].result = "Error: identity is write-protected"
    /\ tool_log[2].name = "write_file"
    /\ tool_log[2].arguments = [path |-> "mem/identity.md", content |-> "A"]
    /\ tool_log[2].result = SANDBOX_ERROR
    /\ fs.files[DocPath(MEM, "identity")] = DEFAULT_IDENTITY

(***************************************************************************)
(* What a turn of one persona leaves alone.                                *)
(***************************************************************************)
\* the directory of a persona, which holds its memory and its workspace
HomeOf(side) == PERSONAS_DIR \o <<PersonaOf(side)>>

\* the part of a filesystem that lies at or below root
Under(root, f) ==
    [files |-> [q \in {q \in DOMAIN f.files : IsPrefix(root, q)} |-> f.files[q]],
     dirs |-> {d \in f.dirs : IsPrefix(root, d)},
     links |-> [q \in {q \in DOMAIN f.links : IsPrefix(root, q)} |-> f.links[q]]]

\* C35: with two distinct personas, a turn or a reflection turn of one
\* persona leaves the other persona's memory documents, workspace files and
\* message history unchanged, from the rebuilding of the history to the
\* return of chat_turn; and the history with which the turn starts is made
\* of the persona's own documents, its own earlier messages and one user
\* message, the final utterance of the other persona (the fixed prompt at
\* turn 0 and in a reflection turn): nothing else passes between them.
C35_OtherPersonaUntouched ==
    /\ [][(persona_a # persona_b /\ (pc = "chat" \/ pc' = "chat")) =>
             LET other == OtherSide(cur')
             IN  /\ messages'[other] = messages[other]
                 /\ Under(HomeOf(other), fs') = Under(HomeOf(other), fs)]_vars
    /\ [][(persona_a # persona_b /\ pc \in {"loop", "reflection"} /\ pc' = "chat") =>
             LET side == cur'
                 own == Under(HomeOf(side), fs)
                 reflecting == (pc = "reflection")
                 them == IF reflecting THEN "" ELSE PersonaOf(OtherSide(side))
                 prompt == build_conversation_prompt(
                               resolve_persona(PersonaOf(side)).memory_dir, them, own)
                 said == IF reflecting THEN REFLECT
                         ELSE IF i = 0 THEN OPENING(them) ELSE last_utterance
             IN  messages'[side] =
                     <<[role |-> "system", content |-> prompt]>>
                         \o Tail_n(NonSystem(messages[side]), 9)
                         \o <<[role |-> "user", content |-> said]>>]_vars

\* B updates its memory in its reflection turn; A, which wrote a note in its
\* own workspace during the conversation, keeps its documents as they were
C35_Witness ==
    /\ phase = "reflection" /\ pc = "chat" /\ cur = "b"
    /\ Len(tool_log) = 1 /\ tool_log[1].name = "update_memory"
    /\ fs.files[DocPath(resolve_persona(persona_b).memory_dir, "knowledge")]
           # DEFAULT_MEMORY.knowledge
    /\ fs.files[DocPath(resolve_persona(persona_a).memory_dir, "knowledge")]
           = DEFAULT_MEMORY.knowledge
    /\ IsFile(fs, resolve_persona(persona_a).workspace_dir \o <<"note.txt">>)
    /\ ~IsFile(fs, resolve_persona(persona_b).workspace_dir \o <<"note.txt">>)

(***************************************************************************)
(* Tool messages in a truncated history.                                   *)
(***************************************************************************)
\* a conversation long enough for the window of nine messages to cut a
\* history behind an assistant message that carried a full list of tool calls
InitWindow ==
    /\ pc = "init"
    /\ phase = "conversation"
    /\ ct = "idle"
    /\ max_turns = MaxLongTurns
    /\ \E pair \in PersonaPairs : persona_a = pair[1] /\ persona_b = pair[2]
    /\ i = 0
    /\ r = 1
    /\ prev_ended = FALSE
    /\ last_utterance = ""
    /\ messages = [s \in Sides |-> <<>>]
    /\ cur = "a"
    /\ tool_log = <<>>
    /\ pending = <<>>
    /\ ret = ""
    /\ log = <<>>
    /\ fs = EmptyFS
    /\ calls_left = MaxCallsPerMsg
    /\ rounds = MaxRounds
    /\ resumes = 0
    /\ stream = FALSE

SpecWindow == InitWindow /\ [][Next]_vars

\* the position of the message that is no tool message and comes last before
\* position k (0 when there is none)
Requester(h, k) ==
    CHOOSE j \in 0..(k - 1) :
        /\ j > 0 => h[j].role # "tool"
        /\ \A q \in (j + 1)..(k - 1) : h[q].role = "tool"

\* every tool message of h answers a tool call of an assistant message of h
Answered(h) ==
    \A k \in 1..Len(h) :
        h[k].role = "tool" =>
            LET j == Requester(h, k)
            IN  /\ j > 0
                /\ h[j].role = "assistant"
                /\ k - j <= Len(ToolCallsOf(h[j]))

\* C36: in every history passed to a model request each tool message is
\* preceded, earlier in the same history, by the assistant message that
\* carries the tool call it answers: the truncation to the trailing nine
\* messages never leaves a tool message, or a part of a group of tool
\* messages, whose requesting assistant message was discarded.
C36_NoOrphanToolMessage ==
    (pc = "chat" /\ ct = "request") => Answered(messages[cur])

(***************************************************************************)
(* Termination.                                                            *)
(***************************************************************************)
\* the steps chat_turn can still take: requests that may be answered with
\* tool calls, tool calls of the last answer, the request to come
InnerSteps ==
    rounds * (2 * MaxCallsPerMsg + 2) + 2 * Len(pending)
        + (IF ct = "request" THEN 1 ELSE 0)

\* the most steps one chat_turn takes, and the steps of one iteration
InnerMax == MaxRounds * (2 * MaxCallsPerMsg + 2) + 1
TurnSteps == InnerMax + 4

\* the steps left after the loop of the controller: two reflection turns and
\* the return for run_conversation, the return for run_agent
AfterLoopSteps == IF phase = "agent" THEN 1 ELSE 2 * TurnSteps + 2

\* a bound on the number of steps the run can still take
Variant ==
    CASE pc \in {"done", "aborted"} -> 0
      [] pc \in {"init", "agent_init"} -> max_turns * TurnSteps + AfterLoopSteps + 1
      [] pc \in {"loop", "agent_loop"} -> (max_turns - i) * TurnSteps + AfterLoopSteps
      [] pc = "consensus" -> (max_turns - i - 1) * TurnSteps + AfterLoopSteps + 1
      [] pc = "reflection" -> (3 - r) * TurnSteps + 1
      [] pc = "returned" ->
            IF phase = "reflection" THEN (2 - r) * TurnSteps + 3
            ELSE (max_turns - i - 1) * TurnSteps + AfterLoopSteps + 2
      [] pc = "chat" ->
            IF phase = "reflection" THEN (2 - r) * TurnSteps + 4 + InnerSteps
            ELSE (max_turns - i - 1) * TurnSteps + AfterLoopSteps + 3 + InnerSteps

\* C37: when each turn eventually gets a response without tool calls (here:
\* after at most MaxRounds answers with tool calls), run_conversation
\* terminates after at most max_turns turns plus two reflection turns and
\* run_agent after exactly max_turns turns: every step of either controller
\* lowers a bound on the steps still to come, a natural number that is zero
\* exactly when the controller has returned or was left by an exception; a
\* completed run_conversation has logged at most max_turns turns and two
\* reflection turns, a completed run_agent has made max_turns turns.
C37_Terminates ==
    /\ [][Variant' < Variant]_vars
    /\ [](/\ Variant \in Nat
          /\ Variant <= (max_turns + 2) * TurnSteps + 3
          /\ Variant = 0 <=> pc \in {"done", "aborted"})
    /\ [](pc = "done" =>
             IF phase = "agent" THEN i = max_turns
             ELSE /\ Len(TurnRecs) <= max_turns
                  /\ Len(ReflectionRecs) = 2
                  /\ Len(EndRecs) = 1)

\* a conversation of three turns has completed, one of its turns having
\* made two tool calls before its final answer
C37_Witness ==
    /\ pc = "done" /\ phase = "reflection" /\ max_turns = 3
    /\ Len(TurnRecs) = 3
    /\ \E k \in 1..3 : Len(TurnRecs[k].tool_calls) = 2
    /\ calls_left = 0

(***************************************************************************)
(* chat_turn with and without streaming.                                   *)
(***************************************************************************)
\* run_agent with either value of the parameter stream
InitModes ==
    /\ pc = "agent_init"
    /\ phase = "agent"
    /\ ct = "idle"
    /\ max_turns \in 0..MaxStreamTurns
    /\ \E pair \in PersonaPairs : persona_a = pair[1] /\ persona_b = pair[1]
    /\ i = 0
    /\ r = 1
    /\ prev_ended = FALSE
    /\ last_utterance = ""
    /\ messages = [s \in Sides |-> <<>>]
    /\ cur = "a"
    /\ tool_log = <<>>
    /\ pending = <<>>
    /\ ret = ""
    /\ log = <<>>
    /\ fs = EmptyFS
    /\ calls_left = MaxToolCalls
    /\ rounds = MaxRounds
    /\ resumes = 0
    /\ stream \in BOOLEAN

NextModes == NextAgent \/ NextStream

SpecModes == InitModes /\ [][NextModes]_vars

\* the roles, contents and tool calls of a history
Shape(h) ==
    [k \in 1..Len(h) |->
        [role |-> h[k].role, content |-> h[k].content,
         tool_calls |-> ToolCallsOf(h[k])]]

\* C38: for a backend whose chunks, concatenated, carry the content and the
\* tool calls of its message without streaming, chat_turn does the same with
\* stream true and false.  In both modes the step that takes the answer
\* appends an assistant message with the answer's content and tool calls and
\* goes on as these two values alone decide: with calls, to their execution
\* in order; without, to the return of the content and the tool log; with
\* streaming the answer is what the chunks accumulated, and reading them
\* changes neither history, tool log nor filesystem.  The tool calls are
\* executed by steps that do not depend on the mode: the same handler result
\* enters the tool log and the history.
C38_StreamEquivalence ==
    /\ [][(pc = "chat" /\ ct \in {"request", "stream"}
              /\ pc' # "aborted" /\ ct' # "stream") =>
             LET h == messages'[cur]
                 msg == h[Len(h)]
                 content == msg.content
                 calls == ToolCallsOf(msg)
             IN  /\ stream <=> ct = "stream"
                 /\ stream => content = ret /\ calls = pending
                 /\ Shape(h) = Append(Shape(messages[cur]),
                                      [role |-> "assistant", content |-> content,
                                       tool_calls |-> calls])
                 /\ tool_log' = tool_log /\ fs' = fs
                 /\ IF calls # <<>>
                    THEN pc' = "chat" /\ ct' = "tools" /\ pending' = calls
                    ELSE pc' = "returned" /\ ct' = "idle" /\ ret' = content]_vars
    /\ [][(ct' = "stream") =>
             /\ stream /\ pc' = pc
             /\ messages' = messages /\ tool_log' = tool_log /\ fs' = fs]_vars
    /\ [][(pc = "chat" /\ ct = "tools" /\ pc' # "aborted") =>
             LET out == ToolOutcome(Head(pending))
             IN  /\ fs' = out.fs
                 /\ tool_log' = Append(tool_log,
                                       [name |-> Head(pending).name,
                                        arguments |-> Head(pending).arguments,
                                        result |-> out.result])
                 /\ Shape(messages'[cur]) =
                        Append(Shape(messages[cur]),
                               [role |-> "tool", content |-> out.result,
                                tool_calls |-> <<>>])
                 /\ pending' = Tail(pending)
                 /\ ct' = IF pending' = <<>> THEN "request" ELSE "tools"
                 /\ stream' = stream]_vars

\* with streaming, a turn has returned "hi", assembled from two chunks, after
\* an answer of two tool calls that were executed: answers that the backend
\* gives without streaming too
C38_Witness ==
    /\ stream /\ pc = "returned" /\ ret = "hi"
    /\ Len(tool_log) = 2
    /\ LET S == Shape(messages[cur])
       IN  /\ Len(S) = 6
           /\ S[3].role = "assistant" /\ S[3].content = "" /\ Len(S[3].tool_calls) = 2
           /\ S[4].role = "tool" /\ S[5].role = "tool"
           /\ S[6] = [role |-> "assistant", content |-> "hi", tool_calls |-> <<>>]
           /\ [content |-> S[3].content, tool_calls |-> S[3].tool_calls]
                  \in {[content |-> "", tool_calls |-> t] :
                          t \in ToolCallSeqs(MaxCallsPerMsg) \ {<<>>}}
====
